---- MODULE Spec2Model ----
(***************************************************************************)
(* A model of the data-transformation microservice:                        *)
(*   - the parallel batch normalizer (app/services/data_service.py),       *)
(*   - the transformation pipeline (app/etl/transformers, utils).          *)
(* Each component has its own specification over the shared variables; a   *)
(* component's actions leave the other component's variables unchanged.    *)
(***************************************************************************)
EXTENDS Integers, Sequences, FiniteSets, TLC

VARIABLES
    \* ---- parallel batch normalizer (CandidateDataService) ----
    raw_candidates,   \* the argument of process_candidates
    batch_size,       \* the argument batch_size
    max_workers,      \* self.max_workers
    npc,              \* position of the thread that called process_candidates
    batches,          \* the local list of chunks
    futures,          \* the futures the executor returned, in submission order
    finished_init,    \* as_completed: futures already finished at the call, not yet yielded
    waiter,           \* as_completed: futures that finished after the call, in completion order
    n_yielded,        \* as_completed: how many futures it has yielded
    results,          \* the local list results
    error_log,        \* what process_candidates logged with logger.error
    \* ---- transformation pipeline (DataLakeTransformer and its subclasses) ----
    cls,              \* the class of the transformer instance
    entry,            \* the entry point called: "api", "db" or "file"
    config,           \* the instance's configuration (rules, schema, fields)
    source,           \* the source argument (url, source_name or file path)
    now,              \* what datetime.utcnow() reads during the call
    ppc,              \* position of the call of the entry point
    extracted,        \* what the extractor returned to the call
    out,              \* the dict the entry point builds and returns
    perr,             \* the exception the entry point raised
    base_meta,        \* what _generate_metadata returned in this call
    prev,             \* the previous call: its payload and its metadata
    logged,           \* what the transformer logged with self.logger.error
    \* ---- data-lake sink (the save operations of the transformers) ----
    sargs,            \* the call's arguments, the clock and the environment
    spc,              \* position of the call of the save operation
    files,            \* the files of the storage: path |-> content
    output_path,      \* the local output_path of the call
    sout,             \* the path the call returned
    serr,             \* the exception the call raised
    \* ---- extractors (UniversalDataExtractor, MedicalAppExtractor) ----
    xargs,            \* the instance's class and configuration, and the environment
    xpc,              \* position of the instance's user
    xres,             \* the resources of the instance: "none", "open" or "closed"
    xqueries,         \* the queries executed on the database connection
    xout,             \* what the fetch returned
    xerr,             \* the exception that reached the instance's user
    \* ---- import jobs (import_records, process_import_job) ----
    iargs,            \* the request and what the database and the key check answer
    ipc,              \* position of the request to import_records
    iresp,            \* the response of import_records
    iverify,          \* what verify_organization_access returned or raised
    job,              \* the committed row of the import job, NoJob if there is none
    tasks,            \* the background tasks added and not yet run
    wpc,              \* position of process_import_job
    wi,               \* the loop variable i of process_import_job
    werr              \* the exception that left process_import_job

nvars == <<raw_candidates, batch_size, max_workers, npc, batches, futures,
           finished_init, waiter, n_yielded, results, error_log>>

pvars == <<cls, entry, config, source, now, ppc, extracted, out, perr, base_meta, prev,
           logged>>

svars == <<sargs, spc, files, output_path, sout, serr>>

xvars == <<xargs, xpc, xres, xqueries, xout, xerr>>

ivars == <<iargs, ipc, iresp, iverify, job, tasks, wpc, wi, werr>>

vars == <<nvars, pvars, svars, xvars, ivars>>

-----------------------------------------------------------------------------
(* Bounds of the model.                                                    *)
MaxCandidates == 3
MaxBatchSize == 2
MaxWorkers == 2
MaxRows == 2
MaxTime == 2
\* The longest list payload of the runs that compare two invocations.
MaxHashRows == 1
\* The most rows of a PostgreSQL result set.
MaxPgRows == 3

-----------------------------------------------------------------------------
(* Python values. A string is a sequence of one-character strings, so that *)
(* strip() and lower() are computed; a dict is the sequence of its         *)
(* <<key, value>> items in insertion order; None is NONE.                  *)
NONE == [t |-> "none", v |-> <<>>]
Str(s) == [t |-> "str", v |-> s]
Num(n) == [t |-> "num", v |-> n]
Dict(items) == [t |-> "dict", v |-> items]
List(elems) == [t |-> "list", v |-> elems]

IsStr(x) == x.t = "str"
IsDict(x) == x.t = "dict"

\* Python truthiness of a value: None, '' and {} are falsy.
Truthy(x) ==
    CASE x.t = "none" -> FALSE
      [] x.t = "str" -> x.v # <<>>
      [] x.t = "dict" -> x.v # <<>>
      [] x.t = "list" -> x.v # <<>>
      [] x.t = "num" -> x.v # 0
      [] OTHER -> TRUE

\* The keys of a dict.
Keys(d) == {d.v[i][1] : i \in 1..Len(d.v)}

\* d[key], for a key of d.
Item(d, key) == d.v[CHOOSE i \in 1..Len(d.v) : d.v[i][1] = key][2]

\* dict.get(key, default)
DictGet(d, key, default) == IF key \in Keys(d) THEN Item(d, key) ELSE default

IsSpace(ch) == ch = " "

RECURSIVE LStrip(_)
LStrip(s) == IF s # <<>> /\ IsSpace(Head(s)) THEN LStrip(Tail(s)) ELSE s

RECURSIVE RStrip(_)
RStrip(s) ==
    IF s # <<>> /\ IsSpace(s[Len(s)]) THEN RStrip(SubSeq(s, 1, Len(s) - 1)) ELSE s

\* str.strip()
Strip(s) == RStrip(LStrip(s))

LowerChar(ch) ==
    CASE ch = "A" -> "a"
      [] ch = "L" -> "l"
      [] ch = "X" -> "x"
      [] OTHER -> ch

\* str.lower()
Lower(s) == [i \in 1..Len(s) |-> LowerChar(s[i])]

-----------------------------------------------------------------------------
(* CandidateDataService: the normalization of one record.                  *)

\* An outcome of a call: a returned value or a raised exception.
Ret(x) == [ok |-> TRUE, value |-> x]
Raise(type, msg) == [ok |-> FALSE, value |-> [type |-> type, msg |-> msg]]

\* _get_clean_value(data, key): the value stripped when it is a string.
\* Raises AttributeError when data has no get (it is not a mapping).
GetCleanValue(data, key) ==
    LET value == DictGet(data, key, NONE)
    IN  IF IsStr(value) THEN Str(Strip(value.v)) ELSE value

\* _normalize_email(email)
NormalizeEmail(email) ==
    IF ~Truthy(email) THEN Ret(NONE)
    ELSE IF IsStr(email) THEN Ret(Str(Strip(Lower(email.v))))
    ELSE Raise("AttributeError", <<"no attribute", "lower">>)

required_fields == <<"id", "firstName", "lastName", "cpf">>

NormalizedKeys ==
    {"id", "firstName", "lastName", "email", "telephone", "city", "state", "country",
     "cpf", "createdAt", "updatedAt"}

\* The first required field whose processed value is falsy, 0 when none is.
RECURSIVE FirstMissing(_, _)
FirstMissing(processed, i) ==
    IF i > Len(required_fields) THEN 0
    ELSE IF ~Truthy(processed[required_fields[i]]) THEN i
    ELSE FirstMissing(processed, i + 1)

\* _process_candidate(candidate). The fields no property here reads
\* (telephone, city, state, country, createdAt, updatedAt, processedAt) are
\* left out of the processed record.
ProcessCandidate(candidate) ==
    IF ~IsDict(candidate) THEN Raise("AttributeError", <<"no attribute", "get">>)
    ELSE
    LET first == DictGet(candidate, "firstName", Str(<<>>))
        last  == DictGet(candidate, "lastName", Str(<<>>))
        email == NormalizeEmail(DictGet(candidate, "email", NONE))
    IN  IF ~IsStr(first) \/ ~IsStr(last) THEN Raise("AttributeError", <<"no attribute", "strip">>)
        ELSE IF ~email.ok THEN email
        ELSE
        LET processed ==
              [id |-> GetCleanValue(candidate, "id"),
               cpf |-> GetCleanValue(candidate, "cpf"),
               firstName |-> GetCleanValue(candidate, "firstName"),
               lastName |-> GetCleanValue(candidate, "lastName"),
               fullName |-> Str(Strip(Strip(first.v) \o <<" ">> \o Strip(last.v))),
               email |-> email.value,
               _originalData |->
                   Dict(SelectSeq(candidate.v, LAMBDA it : it[1] \notin NormalizedKeys))]
            missing == FirstMissing(processed, 1)
        IN  IF missing # 0
            THEN Raise("ValueError", <<"Missing required field", required_fields[missing]>>)
            ELSE Ret(processed)

\* The failure marker _process_batch appends for a candidate that raised e.
\* candidate.get raises AttributeError when the candidate is not a mapping.
FailureMarker(candidate, e) ==
    IF ~IsDict(candidate) THEN Raise("AttributeError", <<"no attribute", "get">>)
    ELSE Ret([id |-> DictGet(candidate, "id", NONE),
              error |-> e.msg,
              originalData |-> candidate])

\* _process_batch without its except clause: the exception of the
\* candidate leaves _process_batch.
ProcessBatchItemNoExcept(candidate) == ProcessCandidate(candidate)

\* One iteration of the loop of _process_batch: what is appended to
\* processed, or the exception that leaves _process_batch.
ProcessBatchItem(candidate) ==
    LET r == ProcessCandidate(candidate)
    IN  IF r.ok THEN r ELSE FailureMarker(candidate, r.value)

-----------------------------------------------------------------------------
(* CandidateDataService.process_candidates and the executor's workers.     *)

Min(a, b) == IF a < b THEN a ELSE b

\* [raw_candidates[i:i + batch_size] for i in range(0, len(raw_candidates), batch_size)]
Chunks(list, size) ==
    [k \in 1..((Len(list) + size - 1) \div size) |->
        SubSeq(list, (k - 1) * size + 1, Min(k * size, Len(list)))]

NoException == [type |-> "", msg |-> <<>>]

NewFuture == [state |-> "PENDING", processed |-> <<>>, exception |-> NoException]

Running == {k \in 1..Len(futures) : futures[k].state = "RUNNING"}

\* The inputs the model draws from.
Ann ==
    Dict(<< <<"id", Str(<<"1">>)>>, <<"firstName", Str(<<" ", "A">>)>>,
            <<"lastName", Str(<<"L">>)>>, <<"cpf", Str(<<"7">>)>>,
            <<"email", Str(<<"A", "@", "X", " ">>)>>, <<"role", Str(<<"d">>)>> >>)
OnlyId == Dict(<< <<"id", Str(<<"2">>)>> >>)
NullName ==
    Dict(<< <<"id", Str(<<"3">>)>>, <<"firstName", NONE>>, <<"lastName", Str(<<"L">>)>>,
            <<"cpf", Str(<<"8">>)>> >>)
NotAMapping == NONE
Candidates == {Ann, OnlyId, NullName, NotAMapping}

RECURSIVE SeqsUpTo(_, _)
SeqsUpTo(S, n) ==
    IF n = 0 THEN {<<>>}
    ELSE LET shorter == SeqsUpTo(S, n - 1)
         IN  shorter \cup {Append(s, x) : s \in {t \in shorter : Len(t) = n - 1}, x \in S}

\* No entry point of the pipeline is called.
PipeIdle ==
    /\ cls = ""
    /\ entry = ""
    /\ config = <<>>
    /\ source = ""
    /\ now = 0
    /\ ppc = "idle"
    /\ extracted = NONE
    /\ out = <<>>
    /\ perr = NoException
    /\ base_meta = <<>>
    /\ prev = <<>>
    /\ logged = <<>>

\* No save operation is called.
SinkIdle ==
    /\ sargs = <<>>
    /\ spc = "idle"
    /\ files = <<>>
    /\ output_path = <<>>
    /\ sout = NONE
    /\ serr = NoException

\* No extractor is constructed.
ExtIdle ==
    /\ xargs = <<>>
    /\ xpc = "idle"
    /\ xres = <<>>
    /\ xqueries = <<>>
    /\ xout = NONE
    /\ xerr = NoException

\* The import_jobs table holds no row; -1 stands for a NULL total_records.
NoJob == [status |-> "absent", records_processed |-> 0, total_records |-> -1, message |-> ""]

\* No request is made and no task is run.
ImportIdle ==
    /\ iargs = <<>>
    /\ ipc = "idle"
    /\ iresp = 0
    /\ iverify = "none"
    /\ job = NoJob
    /\ tasks = <<>>
    /\ wpc = "idle"
    /\ wi = 0
    /\ werr = NoException

\* process_candidates is not called.
NormIdle ==
    /\ raw_candidates = <<>>
    /\ batch_size = 0
    /\ max_workers = 0
    /\ npc = "idle"
    /\ batches = <<>>
    /\ futures = <<>>
    /\ finished_init = {}
    /\ waiter = <<>>
    /\ n_yielded = 0
    /\ results = <<>>
    /\ error_log = <<>>

NormInit ==
    /\ raw_candidates \in SeqsUpTo(Candidates, MaxCandidates)
    /\ batch_size \in 1..MaxBatchSize
    /\ max_workers \in 1..MaxWorkers
    /\ npc = "call"
    /\ batches = <<>>
    /\ futures = <<>>
    /\ finished_init = {}
    /\ waiter = <<>>
    /\ n_yielded = 0
    /\ results = <<>>
    /\ error_log = <<>>
    /\ PipeIdle
    /\ SinkIdle
    /\ ExtIdle
    /\ ImportIdle

\* process_candidates up to the executor: the early return on an empty
\* list, else the chunks.
Enter ==
    /\ npc = "call"
    /\ IF ~(raw_candidates # <<>>)
       THEN /\ npc' = "returned"
            /\ batches' = batches
       ELSE /\ npc' = "submit"
            /\ batches' = Chunks(raw_candidates, batch_size)
    /\ results' = <<>>
    /\ UNCHANGED <<pvars, svars, xvars, ivars>>
    /\ UNCHANGED <<raw_candidates, batch_size, max_workers, futures, finished_init,
                   waiter, n_yielded, error_log>>

\* executor.submit(process_func, batch), one chunk per step.
Submit ==
    /\ npc = "submit"
    /\ Len(futures) < Len(batches)
    /\ futures' = Append(futures, NewFuture)
    /\ UNCHANGED <<pvars, svars, xvars, ivars>>
    /\ UNCHANGED <<raw_candidates, batch_size, max_workers, npc, batches, finished_init,
                   waiter, n_yielded, results, error_log>>

\* A worker thread takes the oldest queued work item.
WorkerStart(k) ==
    /\ futures[k].state = "PENDING"
    /\ \A j \in 1..(k - 1) : futures[j].state # "PENDING"
    /\ Cardinality(Running) < max_workers
    /\ futures' = [futures EXCEPT ![k].state = "RUNNING"]
    /\ UNCHANGED <<pvars, svars, xvars, ivars>>
    /\ UNCHANGED <<raw_candidates, batch_size, max_workers, npc, batches, finished_init,
                   waiter, n_yielded, results, error_log>>

\* The future of chunk k is done: as_completed's waiter, once installed,
\* records it in completion order.
Notify(k) == IF npc = "collect" THEN Append(waiter, k) ELSE waiter

\* _process_batch on chunk k, one candidate per step.
WorkerItem(k) ==
    /\ futures[k].state = "RUNNING"
    /\ Len(futures[k].processed) < Len(batches[k])
    /\ LET item == ProcessBatchItem(batches[k][Len(futures[k].processed) + 1])
       IN  IF item.ok
           THEN /\ futures' = [futures EXCEPT ![k].processed = Append(@, item.value)]
                /\ waiter' = waiter
           ELSE /\ futures' = [futures EXCEPT ![k].state = "FINISHED",
                                               ![k].exception = item.value]
                /\ waiter' = Notify(k)
    /\ UNCHANGED <<pvars, svars, xvars, ivars>>
    /\ UNCHANGED <<raw_candidates, batch_size, max_workers, npc, batches, finished_init,
                   n_yielded, results, error_log>>

\* _process_batch returns processed.
WorkerReturn(k) ==
    /\ futures[k].state = "RUNNING"
    /\ Len(futures[k].processed) = Len(batches[k])
    /\ futures' = [futures EXCEPT ![k].state = "FINISHED"]
    /\ waiter' = Notify(k)
    /\ UNCHANGED <<pvars, svars, xvars, ivars>>
    /\ UNCHANGED <<raw_candidates, batch_size, max_workers, npc, batches, finished_init,
                   n_yielded, results, error_log>>

\* as_completed(futures) is called: the futures already finished are held
\* in a set, the others are waited for.
AsCompleted ==
    /\ npc = "submit"
    /\ Len(futures) = Len(batches)
    /\ npc' = "collect"
    /\ finished_init' = {k \in 1..Len(futures) : futures[k].state = "FINISHED"}
    /\ waiter' = <<>>
    /\ n_yielded' = 0
    /\ UNCHANGED <<pvars, svars, xvars, ivars>>
    /\ UNCHANGED <<raw_candidates, batch_size, max_workers, batches, futures, results,
                   error_log>>

\* The loop body without its except clause: future.result() re-raises the
\* chunk's exception out of process_candidates.
CollectFutureNoExcept(fut, res, log) ==
    IF fut.exception = NoException
    THEN [npc |-> "collect", results |-> res \o fut.processed, error_log |-> log]
    ELSE [npc |-> "raised", results |-> res, error_log |-> log]

\* The body of the loop over as_completed for the yielded future fut:
\* results.extend(future.result()), an exception of the chunk caught and
\* logged.
CollectFuture(fut, res, log) ==
    IF fut.exception = NoException
    THEN [npc |-> "collect", results |-> res \o fut.processed, error_log |-> log]
    ELSE [npc |-> "collect", results |-> res, error_log |-> Append(log, fut.exception)]

\* A loop that stops at the first yielded future.
FirstYielded == n_yielded >= 1

\* as_completed has yielded every future.
AllYielded == n_yielded = Len(futures)

\* as_completed yields the next future and the loop body runs on it.
Collect ==
    /\ npc = "collect"
    /\ ~AllYielded
    /\ \/ \E k \in finished_init :
            /\ finished_init' = finished_init \ {k}
            /\ waiter' = waiter
            /\ LET c == CollectFuture(futures[k], results, error_log)
               IN  /\ npc' = c.npc
                   /\ results' = c.results
                   /\ error_log' = c.error_log
       \/ /\ finished_init = {}
          /\ waiter # <<>>
          /\ finished_init' = finished_init
          /\ waiter' = Tail(waiter)
          /\ LET c == CollectFuture(futures[Head(waiter)], results, error_log)
             IN  /\ npc' = c.npc
                 /\ results' = c.results
                 /\ error_log' = c.error_log
    /\ n_yielded' = n_yielded + 1
    /\ UNCHANGED <<pvars, svars, xvars, ivars>>
    /\ UNCHANGED <<raw_candidates, batch_size, max_workers, batches, futures>>

\* The loop is over: the executor is shut down (it waits for its workers)
\* and results is returned.
Return ==
    /\ npc = "collect"
    /\ AllYielded
    /\ \A k \in 1..Len(futures) : futures[k].state = "FINISHED"
    /\ npc' = "returned"
    /\ UNCHANGED <<pvars, svars, xvars, ivars>>
    /\ UNCHANGED <<raw_candidates, batch_size, max_workers, batches, futures,
                   finished_init, waiter, n_yielded, results, error_log>>

NormNext ==
    \/ Enter
    \/ Submit
    \/ \E k \in 1..Len(futures) : WorkerStart(k)
    \/ \E k \in 1..Len(futures) : WorkerItem(k)
    \/ \E k \in 1..Len(futures) : WorkerReturn(k)
    \/ AsCompleted
    \/ Collect
    \/ Return

SpecNorm == NormInit /\ [][NormNext]_vars

-----------------------------------------------------------------------------
(* Properties of the parallel batch normalizer.                            *)

\* What _process_batch appends for a candidate that is a mapping.
ResultOf(candidate) == ProcessBatchItem(candidate).value

AllMappings == \A i \in 1..Len(raw_candidates) : IsDict(raw_candidates[i])

Failed(k) == futures[k].exception # NoException

\* The results of chunk k are in results, contiguous and in the chunk's order.
ChunkInResults(k) ==
    \E p \in 0..(Len(results) - Len(batches[k])) :
        \A j \in 1..Len(batches[k]) : results[p + j] = ResultOf(batches[k][j])

RECURSIVE SucceededLen(_)
SucceededLen(k) ==
    IF k = 0 THEN 0
    ELSE SucceededLen(k - 1) + (IF Failed(k) THEN 0 ELSE Len(batches[k]))

\* A mapping that lacks a required field (the key is absent or null).
MissingRequired(c) ==
    /\ IsDict(c)
    /\ \E i \in 1..Len(required_fields) :
          DictGet(c, required_fields[i], NONE) = NONE

IsMarkerOf(r, c) ==
    /\ DOMAIN r = {"id", "error", "originalData"}
    /\ r.originalData = c
    /\ r.id = DictGet(c, "id", NONE)

\* C1: process_candidates preserves input order: on a list of mappings,
\* output element i is the result of input record i, whatever the batch
\* size, the worker count and the order in which the chunks complete.
C1_InputOrder ==
    (npc = "returned" /\ AllMappings) =>
        /\ Len(results) = Len(raw_candidates)
        /\ \A i \in 1..Len(raw_candidates) : results[i] = ResultOf(raw_candidates[i])

\* C2: process_candidates returns a list of the length of its input,
\* whether or not records or whole chunks fail.
C2_SameLength == npc = "returned" => Len(results) = Len(raw_candidates)

\* C3: a record missing a required field yields the failure marker
\* {id, error, originalData} with originalData the input record, and it does
\* not abort its chunk: the chunk's other records are processed and, when
\* the chunk is collected, returned.
C3_MissingFieldMarker ==
    \A k \in 1..Len(futures) :
        LET f == futures[k]
        IN  /\ \A j \in 1..Len(f.processed) :
                  /\ f.processed[j] = ResultOf(batches[k][j])
                  /\ MissingRequired(batches[k][j]) => IsMarkerOf(f.processed[j], batches[k][j])
            /\ Failed(k) => ~IsDict(batches[k][Len(f.processed) + 1])
            /\ (npc = "returned" /\ ~Failed(k)) => ChunkInResults(k)

C3_Witness ==
    /\ npc = "returned"
    /\ \E k \in 1..Len(futures) :
          /\ ~Failed(k)
          /\ batches[k] = <<OnlyId, Ann>>
          /\ ChunkInResults(k)

\* C4: process_candidates returns only after every submitted chunk has
\* finished, and when it returns without a chunk failure the output holds
\* the results of all the chunks.
C4_ReturnsAfterAllChunks ==
    (npc = "returned" /\ raw_candidates # <<>>) =>
        /\ Len(futures) = Len(batches)
        /\ \A k \in 1..Len(futures) : futures[k].state = "FINISHED"
        /\ (\A k \in 1..Len(futures) : ~Failed(k)) =>
              /\ Len(results) = Len(raw_candidates)
              /\ \A k \in 1..Len(futures) : ChunkInResults(k)

C4_Witness ==
    /\ npc = "returned"
    /\ Len(futures) >= 2
    /\ max_workers >= 2
    /\ \A k \in 1..Len(futures) : ~Failed(k)
    /\ Len(results) = Len(raw_candidates)

\* C5: a normalization failure never leaves process_candidates as an
\* exception, and the results of every record of every chunk that did not
\* fail are in the output.
C5_NeverRaises ==
    /\ npc # "raised"
    /\ npc = "returned" =>
          /\ \A k \in 1..Len(futures) : ~Failed(k) => ChunkInResults(k)
          /\ Len(results) = SucceededLen(Len(futures))

C5_Witness ==
    /\ npc = "returned"
    /\ error_log # <<>>
    /\ \E k, s \in 1..Len(futures) :
          /\ Failed(k)
          /\ ~Failed(s)
          /\ \E j \in 1..Len(batches[s]) : MissingRequired(batches[s][j])
          /\ ChunkInResults(s)

-----------------------------------------------------------------------------
(* The transformation pipeline: values a DataFrame holds.                  *)

NaN == [t |-> "nan", v |-> <<>>]
NaT == [t |-> "nat", v |-> <<>>]
\* The pandas Timestamp parsed from the text s.
Ts(s) == [t |-> "ts", v |-> s]
\* A datetime object, as a database driver returns for a timestamp column.
DateTime(s) == [t |-> "datetime", v |-> s]

\* pd.isnull / pd.notnull
IsNull(x) == x.t \in {"none", "nan", "nat"}

Range(f) == {f[i] : i \in DOMAIN f}

Digits == {"0", "1", "2", "3", "4", "5", "6", "7", "8", "9"}

IsDigits(s) == s # <<>> /\ \A i \in 1..Len(s) : s[i] \in Digits

DigitVal(ch) ==
    CASE ch = "0" -> 0 [] ch = "1" -> 1 [] ch = "2" -> 2 [] ch = "3" -> 3 [] ch = "4" -> 4
      [] ch = "5" -> 5 [] ch = "6" -> 6 [] ch = "7" -> 7 [] ch = "8" -> 8 [] ch = "9" -> 9

RECURSIVE ParseInt(_)
ParseInt(s) ==
    IF s = <<>> THEN 0
    ELSE ParseInt(SubSeq(s, 1, Len(s) - 1)) * 10 + DigitVal(s[Len(s)])

\* The texts pd.to_numeric parses: here the digit strings.
ParsesAsNumber(s) == IsDigits(s)

\* The texts pd.to_datetime parses: here digits-digits-digits.
ParsesAsTimestamp(s) ==
    \E i, j \in 1..Len(s) :
        /\ i < j
        /\ s[i] = "-"
        /\ s[j] = "-"
        /\ IsDigits(SubSeq(s, 1, i - 1))
        /\ IsDigits(SubSeq(s, i + 1, j - 1))
        /\ IsDigits(SubSeq(s, j + 1, Len(s)))

-----------------------------------------------------------------------------
(* DataFrames: the column labels in order, and one function from label to  *)
(* cell per row.                                                           *)

RECURSIVE AddKeys(_, _)
AddKeys(cols, items) ==
    IF items = <<>> THEN cols
    ELSE AddKeys(IF Head(items)[1] \in Range(cols) THEN cols
                 ELSE Append(cols, Head(items)[1]),
                 Tail(items))

\* The keys of the records in order of first appearance.
RECURSIVE ColumnsOf(_, _)
ColumnsOf(cols, records) ==
    IF records = <<>> THEN cols
    ELSE ColumnsOf(AddKeys(cols, Head(records).v), Tail(records))

\* pd.DataFrame(records) for a list of dicts: a key a record lacks is NaN.
DataFrame(records) ==
    LET cols == ColumnsOf(<<>>, records)
    IN  [columns |-> cols,
         rows |-> [i \in 1..Len(records) |->
                      [c \in Range(cols) |-> DictGet(records[i], c, NaN)]]]

\* df.empty
Empty(df) == df.columns = <<>> \/ df.rows = <<>>

\* df[c]
Column(df, c) == [i \in 1..Len(df.rows) |-> df.rows[i][c]]

\* df[c] = col
SetColumn(df, c, col) ==
    [columns |-> IF c \in Range(df.columns) THEN df.columns ELSE Append(df.columns, c),
     rows |-> [i \in 1..Len(df.rows) |->
                  [k \in Range(df.columns) \cup {c} |->
                      IF k = c THEN col[i] ELSE df.rows[i][k]]]]

\* df.to_dict(orient='records'): one dict per tuple of itertuples, which
\* yields no tuple for a frame without columns.
ToDictRecords(df) ==
    IF df.columns = <<>> THEN <<>>
    ELSE [i \in 1..Len(df.rows) |->
             Dict([j \in 1..Len(df.columns) |-> <<df.columns[j], df.rows[i][df.columns[j]]>>])]

\* _convert_to_dataframe(data)
ConvertToDataFrame(data) ==
    CASE data.t = "list" -> Ret(DataFrame(data.v))
      [] data.t = "dict" -> Ret(DataFrame(<<data>>))
      [] OTHER -> Raise("ValueError", <<"Unsupported data type", data.t>>)

\* dtype == 'object': the column holds text or nested values, or only None.
IsObjectColumn(col) ==
    \/ \E i \in 1..Len(col) : col[i].t \in {"str", "dict", "list"}
    \/ col # <<>> /\ \A i \in 1..Len(col) : col[i].t = "none"

\* pd.to_datetime(col): every value parses, or it raises.
ToDatetime(col) ==
    IF \A i \in 1..Len(col) :
          IsNull(col[i]) \/ col[i].t = "ts" \/ (col[i].t = "str" /\ ParsesAsTimestamp(col[i].v))
    THEN Ret([i \in 1..Len(col) |->
                 IF IsNull(col[i]) THEN NaT
                 ELSE IF col[i].t = "ts" THEN col[i] ELSE Ts(col[i].v)])
    ELSE Raise("ValueError", <<"Unknown datetime string format">>)

\* pd.to_numeric(col): every value parses, or it raises.
ToNumeric(col) ==
    IF \A i \in 1..Len(col) :
          IsNull(col[i]) \/ col[i].t = "num" \/ (col[i].t = "str" /\ ParsesAsNumber(col[i].v))
    THEN Ret([i \in 1..Len(col) |->
                 IF IsNull(col[i]) THEN NaN
                 ELSE IF col[i].t = "num" THEN col[i] ELSE Num(ParseInt(col[i].v))])
    ELSE Raise("ValueError", <<"Unable to parse string">>)

\* The body of the loop of _standardize_data_types for one column.
StandardizeColumn(col) ==
    LET dated == IF IsObjectColumn(col) /\ ToDatetime(col).ok
                 THEN ToDatetime(col).value ELSE col
    IN  IF IsObjectColumn(dated) /\ ToNumeric(dated).ok
        THEN ToNumeric(dated).value ELSE dated

\* _standardize_data_types(df)
StandardizeDataTypes(df) ==
    [columns |-> df.columns,
     rows |-> [i \in 1..Len(df.rows) |->
                  [c \in Range(df.columns) |-> StandardizeColumn(Column(df, c))[i]]]]

-----------------------------------------------------------------------------
(* _generate_metadata: the content hash and the record count.              *)

\* The keys the model's payloads use, in the order sort_keys puts them.
SortedKeys == <<"a", "b", "birth_date", "id", "l", "n", "n_n_a", "price", "ssn", "ts">>

KeyRank(k) == CHOOSE i \in 1..Len(SortedKeys) : SortedKeys[i] = k

\* The items inserted into an already sorted sequence of items.
RECURSIVE InsertSorted(_, _)
InsertSorted(sorted, it) ==
    IF sorted = <<>> THEN <<it>>
    ELSE IF KeyRank(it[1]) < KeyRank(Head(sorted)[1]) THEN <<it>> \o sorted
    ELSE <<Head(sorted)>> \o InsertSorted(Tail(sorted), it)

RECURSIVE SortItems(_)
SortItems(items) ==
    IF items = <<>> THEN <<>>
    ELSE InsertSorted(SortItems(SubSeq(items, 1, Len(items) - 1)), items[Len(items)])

\* json.dumps raises TypeError on a value that is not JSON data.
RECURSIVE JsonSerializable(_)
JsonSerializable(x) ==
    CASE x.t = "dict" -> \A i \in 1..Len(x.v) : JsonSerializable(x.v[i][2])
      [] x.t = "list" -> \A i \in 1..Len(x.v) : JsonSerializable(x.v[i])
      [] x.t \in {"datetime", "ts", "nat"} -> FALSE
      [] OTHER -> TRUE

\* The items of a dict as json.dumps writes them, in insertion order.
UnsortedItems(items) == items

\* The order in which json.dumps(..., sort_keys=True) writes a dict's items.
DumpOrder(items) == SortItems(items)

\* The text json.dumps(x, sort_keys=True) writes, as the tree of its tokens.
RECURSIVE JsonDumps(_)
JsonDumps(x) ==
    CASE x.t = "dict" ->
           [t |-> "object",
            v |-> LET items == DumpOrder(x.v)
                  IN  [i \in 1..Len(items) |-> <<items[i][1], JsonDumps(items[i][2])>>]]
      [] x.t = "list" ->
           [t |-> "array", v |-> [i \in 1..Len(x.v) |-> JsonDumps(x.v[i])]]
      [] OTHER -> x

\* hashlib.md5(text).hexdigest(): a digest stands for the text it was made of.
Md5(text) == [md5 |-> text]

\* DataLakeTransformer._generate_metadata(data, source) at the clock reading t.
GenerateMetadata(data, src, t) ==
    IF ~JsonSerializable(data) THEN Raise("TypeError", <<"not JSON serializable">>)
    ELSE Ret([load_timestamp |-> t,
              source_system |-> src,
              data_hash |-> Md5(JsonDumps(data)),
              record_count |-> IF data.t = "list" THEN Len(data.v) ELSE 1,
              schema_version |-> "1.0"])

-----------------------------------------------------------------------------
(* BusinessRulesTransformer.                                               *)

\* A float, in hundredths.
Float(h) == [t |-> "float", v |-> h]

\* The rate table of _get_exchange_rate, in hundredths.
rates == ("USD" :> 100) @@ ("EUR" :> 85) @@ ("GBP" :> 75) @@ ("JPY" :> 11000)

\* A lookup that falls back to the rate 1.0 for a currency it does not know.
GetExchangeRateDefault(currency) ==
    Ret(IF currency \in DOMAIN rates THEN rates[currency] ELSE 100)

\* _get_exchange_rate(currency)
GetExchangeRate(currency) ==
    IF currency \notin DOMAIN rates
    THEN Raise("ValueError", <<"Unsupported currency", currency>>)
    ELSE Ret(rates[currency])

\* df["price"] * rate: defined on numbers, TypeError on text, None and dates.
MultiplyColumn(col, rate) ==
    IF \A i \in 1..Len(col) : col[i].t \in {"num", "nan"}
    THEN Ret([i \in 1..Len(col) |->
                 IF col[i].t = "num" THEN Float(col[i].v * rate) ELSE NaN])
    ELSE Raise("TypeError", <<"unsupported operand type(s) for *">>)

\* self.rules.get("price", {})
PriceRules(rules) == IF "price" \in DOMAIN rules THEN rules["price"] ELSE <<>>

\* _apply_business_rules(df): the ValueError of the rate lookup is caught
\* and logged, the frame is returned as it was.
ApplyBusinessRules(df, rules) ==
    IF "price" \in Range(df.columns) /\ "convert_currency" \in DOMAIN PriceRules(rules)
    THEN LET rate == GetExchangeRate(rules["price"]["convert_currency"])
             product == MultiplyColumn(Column(df, "price"), rate.value)
         IN  IF ~rate.ok THEN Ret(df)
             ELSE IF ~product.ok THEN product
             ELSE Ret(SetColumn(df, "price_usd", product.value))
    ELSE Ret(df)

\* What _apply_business_rules logs: the ValueError it catches.
LoggedByBusinessRules(df, rules) ==
    IF "price" \in Range(df.columns) /\ "convert_currency" \in DOMAIN PriceRules(rules)
    THEN LET rate == GetExchangeRate(rules["price"]["convert_currency"])
         IN  IF ~rate.ok /\ rate.value.type = "ValueError" THEN <<rate.value>> ELSE <<>>
    ELSE <<>>

\* BusinessRulesTransformer.transform_file_data, after super()'s.
BusinessRulesStage(data, rules) ==
    LET r == ApplyBusinessRules(DataFrame(data.data), rules)
    IN  IF r.ok THEN Ret([data EXCEPT !.data = ToDictRecords(r.value)]) ELSE r

-----------------------------------------------------------------------------
(* DataQualityTransformer. A ratio is the pair <<numerator, denominator>>. *)

Max(a, b) == IF a > b THEN a ELSE b

NullCount(col) == Cardinality({i \in 1..Len(col) : IsNull(col[i])})

\* df[col].nunique(): the distinct values that are not null.
NUnique(col) == Cardinality({col[i] : i \in {j \in 1..Len(col) : ~IsNull(col[j])}})

\* nunique hashes the values: a dict or a list is unhashable.
Unhashable(df) ==
    \E i \in 1..Len(df.rows) : \E c \in Range(df.columns) : df.rows[i][c].t \in {"dict", "list"}

\* _calculate_quality_metrics(df)
CalculateQualityMetrics(df) ==
    IF Empty(df)
    THEN Raise("ValueError", <<"Cannot calculate metrics for empty DataFrame">>)
    ELSE IF Len(df.rows) = 0
    THEN Ret([completeness |-> <<>>, uniqueness |-> <<>>])
    ELSE IF Unhashable(df) THEN Raise("TypeError", <<"unhashable type">>)
    ELSE Ret([completeness |->
                  [c \in Range(df.columns) |->
                      <<Len(df.rows) - NullCount(Column(df, c)), Len(df.rows)>>],
              uniqueness |->
                  [c \in Range(df.columns) |->
                      <<NUnique(Column(df, c)), Max(1, Len(df.rows))>>]])

\* metadata[key] = value
SetKey(metadata, key, value) == (key :> value) @@ metadata

\* A stage that builds a new metadata dict holding only its own key.
ReplaceMetadata(metadata, key, value) == (key :> value)

\* data["metadata"]["quality_metrics"] = metrics
AddQualityMetrics(metadata, key, value) == SetKey(metadata, key, value)

\* DataQualityTransformer.transform_database_data, after super()'s.
DataQualityStage(data) ==
    LET df == DataFrame(data.data)
        metrics == CalculateQualityMetrics(df)
    IN  IF ~Empty(df)
        THEN IF metrics.ok
             THEN Ret([data EXCEPT !.metadata =
                           AddQualityMetrics(@, "quality_metrics", metrics.value)])
             ELSE metrics
        ELSE Ret([data EXCEPT !.metadata =
                      AddQualityMetrics(@, "quality_metrics",
                                        [completeness |-> <<>>, uniqueness |-> <<>>])])

-----------------------------------------------------------------------------
(* JSONFlattenerTransformer.                                               *)

\* dict(items): a later item of a key replaces the value of the earlier one.
RECURSIVE DictFromItems(_, _)
DictFromItems(acc, items) ==
    IF items = <<>> THEN acc
    ELSE LET it == Head(items)
             at == {i \in 1..Len(acc) : acc[i][1] = it[1]}
         IN  DictFromItems(IF at = {} THEN Append(acc, it)
                           ELSE [acc EXCEPT ![CHOOSE i \in at : TRUE] = it],
                           Tail(items))

RECURSIVE FlattenItems(_, _, _)
RECURSIVE FlattenList(_, _, _, _)
RECURSIVE FlattenDict(_, _, _)

\* A key that gets the separator in front even without a parent key.
NewKeyAlwaysPrefixed(parent_key, sep, k) == parent_key \o sep \o k

\* new_key = f"{parent_key}{sep}{k}" if parent_key else k
NewKey(parent_key, sep, k) == IF parent_key # "" THEN parent_key \o sep \o k ELSE k

\* The loop of _flatten_dict over the items of d.
FlattenItems(items, parent_key, sep) ==
    IF items = <<>> THEN <<>>
    ELSE LET k == Head(items)[1]
             v == Head(items)[2]
             new_key == NewKey(parent_key, sep, k)
             here == CASE v.t = "dict" -> FlattenDict(v, new_key, sep).v
                       [] v.t = "list" -> FlattenList(v.v, 0, new_key, sep)
                       [] OTHER -> << <<new_key, v>> >>
         IN  here \o FlattenItems(Tail(items), parent_key, sep)

\* A loop body that keeps an element that is not a dict under the indexed key.
ListElementItemsKeepScalar(item, indexed_key, sep) ==
    IF item.t = "dict" THEN FlattenDict(item, indexed_key, sep).v
    ELSE << <<indexed_key, item>> >>

\* The body of the loop over enumerate(v): what the element item extends
\* items with, indexed_key being f"{new_key}_{i}".
ListElementItems(item, indexed_key, sep) ==
    IF item.t = "dict" THEN FlattenDict(item, indexed_key, sep).v ELSE <<>>

\* The loop over enumerate(v): only the elements that are dicts contribute.
FlattenList(elems, i, new_key, sep) ==
    IF elems = <<>> THEN <<>>
    ELSE ListElementItems(Head(elems), new_key \o "_" \o ToString(i), sep)
         \o FlattenList(Tail(elems), i + 1, new_key, sep)

\* _flatten_dict(d, parent_key, sep)
FlattenDict(d, parent_key, sep) ==
    Dict(DictFromItems(<<>>, FlattenItems(d.v, parent_key, sep)))

\* JSONFlattenerTransformer.transform_api_data, after super()'s.
JSONFlattenerStage(data) ==
    Ret([data EXCEPT !.data = [i \in 1..Len(data.data) |-> FlattenDict(data.data[i], "", "_")]])

-----------------------------------------------------------------------------
(* SchemaEnforcerTransformer.                                              *)

DigitChar(d) == CHOOSE ch \in Digits : DigitVal(ch) = d

RECURSIVE IntToChars(_)
IntToChars(n) ==
    IF n < 10 THEN <<DigitChar(n)>> ELSE IntToChars(n \div 10) \o <<DigitChar(n % 10)>>

\* str(x), as a sequence of characters.
PyStr(x) ==
    CASE x.t = "str" -> x.v
      [] x.t = "num" -> IntToChars(x.v)
      [] x.t = "ts" -> x.v
      [] x.t = "datetime" -> IntToChars(x.v)
      [] x.t = "none" -> <<"N", "o", "n", "e">>
      [] x.t = "nan" -> <<"n", "a", "n">>
      [] x.t = "nat" -> <<"N", "a", "T">>
      [] OTHER -> <<x.t>>

\* pd.to_datetime(col, errors="coerce"): what does not parse becomes NaT.
ToDatetimeCoerce(col) ==
    [i \in 1..Len(col) |->
        IF col[i].t = "ts" THEN col[i]
        ELSE IF col[i].t = "str" /\ ParsesAsTimestamp(col[i].v) THEN Ts(col[i].v)
        ELSE IF col[i].t = "num" THEN Ts(IntToChars(col[i].v))
        ELSE NaT]

\* col.astype(dtype, errors="ignore"): the whole column converted, or the
\* column as it was when a value (or the dtype itself) is not convertible.
AsType(col, dtype) ==
    CASE dtype = "int" ->
           IF \A i \in 1..Len(col) :
                 col[i].t = "num" \/ (col[i].t = "str" /\ IsDigits(col[i].v))
           THEN [i \in 1..Len(col) |->
                    IF col[i].t = "num" THEN col[i] ELSE Num(ParseInt(col[i].v))]
           ELSE col
      [] dtype = "str" -> [i \in 1..Len(col) |-> Str(PyStr(col[i]))]
      [] OTHER -> col

\* _enforce_schema(df), schema the items of self.schema in order.
RECURSIVE EnforceSchema(_, _)
EnforceSchema(df, schema) ==
    IF schema = <<>> THEN Ret(df)
    ELSE LET column == Head(schema)[1]
             dtype == Head(schema)[2]
         IN  IF column \notin Range(df.columns)
             THEN Raise("ValueError", <<"Missing required column", column>>)
             ELSE EnforceSchema(
                      SetColumn(df, column,
                                IF dtype = "datetime"
                                THEN ToDatetimeCoerce(Column(df, column))
                                ELSE AsType(Column(df, column), dtype)),
                      Tail(schema))

\* The local frame df as the loop of _enforce_schema leaves it, by the
\* return or by the raise: the columns before the missing one are assigned.
RECURSIVE EnforceSchemaFrame(_, _)
EnforceSchemaFrame(df, schema) ==
    IF schema = <<>> THEN df
    ELSE LET column == Head(schema)[1]
             dtype == Head(schema)[2]
         IN  IF column \notin Range(df.columns) THEN df
             ELSE EnforceSchemaFrame(
                      SetColumn(df, column,
                                IF dtype = "datetime"
                                THEN ToDatetimeCoerce(Column(df, column))
                                ELSE AsType(Column(df, column), dtype)),
                      Tail(schema))

\* SchemaEnforcerTransformer.transform_api_data, after super()'s.
SchemaEnforcerStage(data, schema) ==
    LET r == EnforceSchema(DataFrame(data.data), schema)
    IN  IF r.ok THEN Ret([data EXCEPT !.data = ToDictRecords(r.value)]) ELSE r

-----------------------------------------------------------------------------
(* IncrementLoadTransformer and PrivateTransform.                          *)

\* The parameters of DataLakeTransformer._generate_metadata.
GenerateMetadataParams == {"data", "source"}

\* self._generate_metadata(data, <keyword>=value): a keyword that is not a
\* parameter is a TypeError.
GenerateMetadataKw(data, keyword, value, t) ==
    IF keyword \notin GenerateMetadataParams
    THEN Raise("TypeError", <<"unexpected keyword argument", keyword>>)
    ELSE GenerateMetadata(data, value, t)

CharOrder == <<"-", "0", "1", "2", "3", "4", "5", "6", "7", "8", "9", "x">>

CharRank(ch) == CHOOSE i \in 1..Len(CharOrder) : CharOrder[i] = ch

RECURSIVE LexLeq(_, _)
LexLeq(a, b) ==
    IF a = <<>> THEN TRUE
    ELSE IF b = <<>> THEN FALSE
    ELSE IF Head(a) = Head(b) THEN LexLeq(Tail(a), Tail(b))
    ELSE CharRank(Head(a)) < CharRank(Head(b))

\* a <= b on two values of one column.
CellLeq(a, b) == IF a.t = "str" THEN LexLeq(a.v, b.v) ELSE a.v <= b.v

\* df[field].max(): the largest value that is not null, NaN when none is.
ColumnMax(col) ==
    LET present == {i \in 1..Len(col) : ~IsNull(col[i])}
    IN  IF present = {} THEN NaN
        ELSE col[CHOOSE m \in present : \A i \in present : CellLeq(col[i], col[m])]

\* df[field].unique().tolist(): the values in order of first appearance.
RECURSIVE Unique(_, _)
Unique(acc, col) ==
    IF col = <<>> THEN acc
    ELSE Unique(IF Head(col) \in Range(acc) THEN acc ELSE Append(acc, Head(col)), Tail(col))

\* IncrementLoadTransformer.transform_database_data, after the extraction.
IncrementLoadTransform(raw_data, id_field, timestamp_field, t) ==
    LET df == DataFrame(raw_data.v)
        metadata == GenerateMetadataKw(raw_data, "source_type", "database", t)
    IN  IF timestamp_field \notin Range(df.columns)
        THEN Raise("KeyError", <<timestamp_field>>)
        ELSE IF id_field \notin Range(df.columns) THEN Raise("KeyError", <<id_field>>)
        ELSE IF ~metadata.ok THEN metadata
        ELSE Ret([data |-> ToDictRecords(df),
                  metadata |->
                      metadata.value
                      @@ ("max_timestamp" :> Str(PyStr(ColumnMax(Column(df, timestamp_field)))))
                      @@ ("record_ids" :> Unique(<<>>, Column(df, id_field)))])

\* hashlib.sha256(str(x).encode()).hexdigest(): a digest stands for the
\* text it was made of.
Sha256(x) == Str(<<"#">> \o PyStr(x))

\* A lambda that hashes str(x) of every value, None and NaN included.
HashValueAlways(x) == Sha256(x)

\* lambda x: hashlib.sha256(str(x).encode()).hexdigest() if pd.notnull(x) else x
HashValue(x) == IF ~IsNull(x) THEN Sha256(x) ELSE x

\* hash_sensitive_data(df), fields the list self.sensitive_fields.
RECURSIVE HashSensitiveData(_, _)
HashSensitiveData(df, fields) ==
    IF fields = <<>> THEN df
    ELSE HashSensitiveData(
             IF Head(fields) \in Range(df.columns)
             THEN SetColumn(df, Head(fields),
                            [i \in 1..Len(df.rows) |-> HashValue(df.rows[i][Head(fields)])])
             ELSE df,
             Tail(fields))

\* PrivateTransform.transform_database_data, after the extraction.
PrivateTransform(raw_data, sensitive_fields, t) ==
    LET df == StandardizeDataTypes(HashSensitiveData(DataFrame(raw_data.v), sensitive_fields))
        metadata == GenerateMetadataKw(raw_data, "source_type", "database", t)
    IN  IF ~metadata.ok THEN metadata
        ELSE Ret([data |-> ToDictRecords(df), metadata |-> metadata.value])

-----------------------------------------------------------------------------
(* The entry points transform_api_data, transform_database_data and        *)
(* transform_file_data of each class.                                      *)

Classes ==
    {"DataLakeTransformer", "BusinessRulesTransformer", "DataQualityTransformer",
     "IncrementLoadTransformer", "PrivateTransform", "JSONFlattenerTransformer",
     "SchemaEnforcerTransformer"}

Entries == {"api", "db", "file"}

\* The entry point a class overrides.
Overrides(c, e) ==
    \/ c = "BusinessRulesTransformer" /\ e = "file"
    \/ c \in {"DataQualityTransformer", "IncrementLoadTransformer", "PrivateTransform"} /\ e = "db"
    \/ c \in {"JSONFlattenerTransformer", "SchemaEnforcerTransformer"} /\ e = "api"

\* The overriding entry points that call super()'s and post-process its result.
CallsSuper(c, e) ==
    Overrides(c, e) /\ c \notin {"IncrementLoadTransformer", "PrivateTransform"}

\* The source name the base entry point hands to _generate_metadata.
SourceName(e, src) ==
    CASE e = "api" -> "API:" \o src
      [] e = "db" -> src
      [] e = "file" -> "FILE:" \o src

\* A base entry point that hands on the standardized records as raw_data.
BaseResultStandardized(records, metadata, raw_data) ==
    [data |-> records, metadata |-> metadata, raw_data |-> List(records)]

\* The dict the base entry points return, raw_data being the extractor's value.
BaseResult(records, metadata, raw_data) ==
    [data |-> records, metadata |-> metadata, raw_data |-> raw_data]

\* DataLakeTransformer.transform_*_data, after the extraction.
BaseTransform(raw_data, e, src, t) ==
    LET df == ConvertToDataFrame(raw_data)
        metadata == GenerateMetadata(raw_data, SourceName(e, src), t)
    IN  IF ~df.ok THEN df
        ELSE IF ~metadata.ok THEN metadata
        ELSE Ret(BaseResult(ToDictRecords(StandardizeDataTypes(df.value)),
                            metadata.value, raw_data))

\* The configurations the model draws from.
NoConfig ==
    [rules |-> <<>>, schema |-> <<>>, id_field |-> "", timestamp_field |-> "",
     sensitive_fields |-> <<>>]

Configs(c) ==
    CASE c = "BusinessRulesTransformer" ->
           {[NoConfig EXCEPT !.rules = r] :
               r \in {<<>>, ("price" :> ("convert_currency" :> "EUR")),
                      ("price" :> ("convert_currency" :> "XXX"))}}
      [] c = "SchemaEnforcerTransformer" ->
           {[NoConfig EXCEPT !.schema = sch] :
               sch \in {<< <<"id", "int">>, <<"ts", "datetime">> >>,
                        << <<"ssn", "str">>, <<"created", "datetime">> >>,
                        << <<"id", "str">>, <<"created", "datetime">> >>}}
      [] c = "IncrementLoadTransformer" ->
           {[NoConfig EXCEPT !.id_field = "id", !.timestamp_field = f] : f \in {"ts", "updated"}}
      [] c = "PrivateTransform" ->
           {[NoConfig EXCEPT !.sensitive_fields = f] : f \in {<<"ssn">>, <<"absent", "ssn">>}}
      [] OTHER -> {NoConfig}

Sources == {"s1", "s2"}

\* The payloads the model draws from.
EmptyRecord == Dict(<<>>)
Order1 ==
    Dict(<< <<"id", Str(<<"7">>)>>, <<"price", Num(100)>>,
            <<"ts", Str(<<"2", "-", "1", "-", "5">>)>>, <<"ssn", Str(<<"x">>)>> >>)
Order2 == Dict(<< <<"id", Str(<<"8">>)>>, <<"ts", Str(<<"x">>)>>, <<"ssn", NONE>> >>)
Nested ==
    Dict(<< <<"n", Dict(<< <<"b", Num(1)>>, <<"a", Str(<<"x">>)>> >>)>>,
            <<"l", List(<<Dict(<< <<"a", Num(1)>> >>), Num(2)>>)>> >>)
Deep ==
    Dict(<< <<"n", Dict(<< <<"n", Dict(<< <<"a", Num(1)>> >>)>> >>)>>,
            <<"n_n_a", Num(2)>>, <<"l", List(<<Num(2)>>)>> >>)
RowA1 == Dict(<< <<"id", Num(7)>>, <<"price", Num(100)>>, <<"ssn", Str(<<"x">>)>> >>)
RowA2 == Dict(<< <<"id", Num(8)>>, <<"price", NONE>>, <<"ssn", NONE>> >>)
RowB1 == Dict(<< <<"id", Num(7)>>, <<"ts", DateTime(3)>> >>)
RowB2 == Dict(<< <<"id", Num(8)>>, <<"ts", DateTime(5)>> >>)

JsonMappings == {EmptyRecord, Order1, Order2, Nested, Deep}

\* What from_api and from_file return: a mapping or a list of mappings.
JsonPayloads == JsonMappings \cup {List(rows) : rows \in SeqsUpTo(JsonMappings, MaxRows)}

\* What from_database returns: the rows of one result set, each a dict of
\* the result's columns (EmptyRecord for a result without columns).
DbPayloads ==
    {List(rows) : rows \in SeqsUpTo({RowA1, RowA2}, MaxRows) \cup SeqsUpTo({RowB1, RowB2}, MaxRows)
                           \cup SeqsUpTo({EmptyRecord}, MaxRows)}

Payloads(e) == IF e = "db" THEN DbPayloads ELSE JsonPayloads

PipeInit ==
    /\ cls \in Classes
    /\ entry \in Entries
    /\ config \in Configs(cls)
    /\ source \in Sources
    /\ now \in 1..MaxTime
    /\ ppc = "call"
    /\ extracted = NONE
    /\ out = <<>>
    /\ perr = NoException
    /\ base_meta = <<>>
    /\ prev = <<>>
    /\ logged = <<>>
    /\ NormIdle
    /\ SinkIdle
    /\ ExtIdle
    /\ ImportIdle

\* self.extractor.from_api / from_database / from_file returns.
Extract ==
    /\ ppc = "call"
    /\ \E p \in Payloads(entry) : extracted' = p
    /\ ppc' = "extracted"
    /\ UNCHANGED <<nvars, svars, xvars, ivars>>
    /\ UNCHANGED <<cls, entry, config, source, now, out, perr, base_meta, prev, logged>>

\* except Exception as e: self.logger.error(...); raise -- the entry points
\* that wrap their body in this handler.
LogsAndReraises(c, e) ==
    c \in {"DataQualityTransformer", "IncrementLoadTransformer", "PrivateTransform"} /\ e = "db"

\* The log after the exception err has left the entry point.
LogOnRaise(err) == IF LogsAndReraises(cls, entry) THEN Append(logged, err) ELSE logged

\* The extractor raises: the entry point re-raises.
ExtractFails ==
    /\ ppc = "call"
    /\ perr' = [type |-> "ExtractionError", msg |-> <<entry>>]
    /\ logged' = LogOnRaise(perr')
    /\ ppc' = "raised"
    /\ UNCHANGED <<nvars, svars, xvars, ivars>>
    /\ UNCHANGED <<cls, entry, config, source, now, extracted, out, base_meta, prev>>

\* The base entry point, called directly or by super().
Base ==
    /\ ppc = "extracted"
    /\ ~Overrides(cls, entry) \/ CallsSuper(cls, entry)
    /\ LET r == BaseTransform(extracted, entry, source, now)
       IN  IF r.ok
           THEN /\ out' = r.value
                /\ base_meta' = r.value.metadata
                /\ perr' = perr
                /\ ppc' = IF CallsSuper(cls, entry) THEN "super_returned" ELSE "returned"
                /\ logged' = logged
           ELSE /\ perr' = r.value
                /\ ppc' = "raised"
                /\ logged' = LogOnRaise(r.value)
                /\ UNCHANGED <<out, base_meta>>
    /\ UNCHANGED <<nvars, svars, xvars, ivars>>
    /\ UNCHANGED <<cls, entry, config, source, now, extracted, prev>>

\* What the overriding entry point does with super()'s result.
StageResult ==
    CASE cls = "BusinessRulesTransformer" -> BusinessRulesStage(out, config.rules)
      [] cls = "DataQualityTransformer" -> DataQualityStage(out)
      [] cls = "JSONFlattenerTransformer" -> JSONFlattenerStage(out)
      [] cls = "SchemaEnforcerTransformer" -> SchemaEnforcerStage(out, config.schema)

\* What the stage logs and does not raise.
StageLogged ==
    IF cls = "BusinessRulesTransformer"
    THEN LoggedByBusinessRules(DataFrame(out.data), config.rules)
    ELSE <<>>

\* The rest of an overriding entry point, after super()'s has returned.
Stage ==
    /\ ppc = "super_returned"
    /\ LET r == StageResult
       IN  IF r.ok
           THEN /\ out' = r.value
                /\ perr' = perr
                /\ ppc' = "returned"
                /\ logged' = logged \o StageLogged
           ELSE /\ perr' = r.value
                /\ ppc' = "raised"
                /\ out' = out
                /\ logged' = LogOnRaise(r.value)
    /\ UNCHANGED <<nvars, svars, xvars, ivars>>
    /\ UNCHANGED <<cls, entry, config, source, now, extracted, base_meta, prev>>

\* The entry points that do not call super(): they build their own result.
OwnResult ==
    CASE cls = "IncrementLoadTransformer" ->
           IncrementLoadTransform(extracted, config.id_field, config.timestamp_field, now)
      [] cls = "PrivateTransform" ->
           PrivateTransform(extracted, config.sensitive_fields, now)

Own ==
    /\ ppc = "extracted"
    /\ Overrides(cls, entry) /\ ~CallsSuper(cls, entry)
    /\ LET r == OwnResult
       IN  IF r.ok
           THEN /\ out' = r.value
                /\ base_meta' = r.value.metadata
                /\ perr' = perr
                /\ ppc' = "returned"
                /\ logged' = logged
           ELSE /\ perr' = r.value
                /\ ppc' = "raised"
                /\ logged' = LogOnRaise(r.value)
                /\ UNCHANGED <<out, base_meta>>
    /\ UNCHANGED <<nvars, svars, xvars, ivars>>
    /\ UNCHANGED <<cls, entry, config, source, now, extracted, prev>>

PipeNext == Extract \/ ExtractFails \/ Base \/ Stage \/ Own

SpecPipe == PipeInit /\ [][PipeNext]_vars

-----------------------------------------------------------------------------
(* Two calls of one DataLakeTransformer, the second at a later clock       *)
(* reading and possibly for another source. prev keeps what the first call *)
(* extracted and the metadata it returned.                                 *)

\* Mappings with the same items inserted in different orders, and one with
\* another value.
Flat1 == Dict(<< <<"a", Num(1)>>, <<"b", Str(<<"x">>)>> >>)
Flat2 == Dict(<< <<"b", Str(<<"x">>)>>, <<"a", Num(1)>> >>)
Flat3 == Dict(<< <<"a", Num(1)>>, <<"b", Str(<<"7">>)>> >>)
Deep1 == Dict(<< <<"id", Num(7)>>, <<"n", Flat1>> >>)
Deep2 == Dict(<< <<"n", Flat2>>, <<"id", Num(7)>> >>)

HashMappings == {Flat1, Flat2, Flat3, Deep1, Deep2}

HashPayloads == HashMappings \cup {List(rows) : rows \in SeqsUpTo(HashMappings, MaxHashRows)}

\* x == y on two payloads: mappings are equal when they hold the same items,
\* in whatever order; lists, text, ints and None are equal as in TLA+.
RECURSIVE PyEq(_, _)
PyEq(x, y) ==
    CASE x.t # y.t -> FALSE
      [] x.t = "dict" ->
           /\ Len(x.v) = Len(y.v)
           /\ \A i \in 1..Len(x.v) :
                  \E j \in 1..Len(y.v) : x.v[i][1] = y.v[j][1] /\ PyEq(x.v[i][2], y.v[j][2])
      [] x.t = "list" ->
           /\ Len(x.v) = Len(y.v)
           /\ \A i \in 1..Len(x.v) : PyEq(x.v[i], y.v[i])
      [] OTHER -> x = y

HashInit ==
    /\ cls = "DataLakeTransformer"
    /\ entry \in Entries
    /\ config = NoConfig
    /\ source \in Sources
    /\ now \in 1..MaxTime
    /\ ppc = "call"
    /\ extracted = NONE
    /\ out = <<>>
    /\ perr = NoException
    /\ base_meta = <<>>
    /\ prev = <<>>
    /\ logged = <<>>
    /\ NormIdle
    /\ SinkIdle
    /\ ExtIdle
    /\ ImportIdle

\* self.extractor.from_api / from_database / from_file returns.
HashExtract ==
    /\ ppc = "call"
    /\ \E p \in HashPayloads : extracted' = p
    /\ ppc' = "extracted"
    /\ UNCHANGED <<nvars, svars, xvars, ivars>>
    /\ UNCHANGED <<cls, entry, config, source, now, out, perr, base_meta, prev, logged>>

\* The caller keeps the first result and calls the entry point again.
NextInvocation ==
    /\ ppc = "returned"
    /\ prev = <<>>
    /\ prev' = [raw_data |-> extracted, metadata |-> out.metadata]
    /\ source' \in Sources
    /\ now' \in now..MaxTime
    /\ ppc' = "call"
    /\ extracted' = NONE
    /\ out' = <<>>
    /\ base_meta' = <<>>
    /\ UNCHANGED <<nvars, svars, xvars, ivars>>
    /\ UNCHANGED <<cls, entry, config, perr, logged>>

HashNext == HashExtract \/ Base \/ NextInvocation

SpecHash == HashInit /\ [][HashNext]_vars

\* The second call has returned.
SecondReturned == prev # <<>> /\ ppc = "returned"

\* C7: two invocations on equal raw payloads return the same data_hash,
\* whatever the load timestamps, the source names and the insertion order of
\* the keys inside the payloads' mappings.
C7_HashDeterministic ==
    (SecondReturned /\ PyEq(prev.raw_data, extracted)) =>
        out.metadata.data_hash = prev.metadata.data_hash

\* Two calls on equal payloads whose mappings were built in different
\* orders, at different clock readings and for different sources.
C7_Witness ==
    /\ SecondReturned
    /\ PyEq(prev.raw_data, extracted)
    /\ prev.raw_data # extracted
    /\ prev.metadata.load_timestamp # out.metadata.load_timestamp
    /\ prev.metadata.source_system # out.metadata.source_system
    /\ out.metadata.data_hash = prev.metadata.data_hash

-----------------------------------------------------------------------------
(* Properties of the entry points.                                         *)

\* The keys of the dict the base entry points return.
BaseKeys == {"data", "metadata", "raw_data"}

\* The entry point returned through an extension stage's own code.
StageReturned == ppc = "returned" /\ Overrides(cls, entry)

\* The number of logical rows of a raw payload.
LogicalRows(raw_data) == IF raw_data.t = "dict" THEN 1 ELSE Len(raw_data.v)

\* C6: for every batch an entry point returns, the number of records in
\* 'data' equals metadata.record_count, which is 1 when the raw payload is a
\* single mapping and its row count when it is a list.
C6_RecordCount ==
    ppc = "returned" =>
        /\ out.metadata.record_count = LogicalRows(extracted)
        /\ Len(out.data) = out.metadata.record_count

\* C8: every key/value the base metadata generation produced is still
\* present, with the same value, in the metadata an entry point returns:
\* the stages only add keys.
C8_MetadataAppendOnly ==
    ppc = "returned" =>
        \A k \in DOMAIN base_meta :
            k \in DOMAIN out.metadata /\ out.metadata[k] = base_meta[k]

\* A stage returned a metadata it has added a key to.
C8_Witness ==
    /\ StageReturned
    /\ cls = "DataQualityTransformer"
    /\ DOMAIN base_meta =
           {"load_timestamp", "source_system", "data_hash", "record_count", "schema_version"}
    /\ "quality_metrics" \in DOMAIN out.metadata
    /\ out.metadata.quality_metrics.completeness # <<>>

\* C9: the 'raw_data' of a returned batch is what the extractor returned,
\* whatever type standardization and the extension stages did to 'data'.
C9_RawDataUnchanged ==
    (ppc \in {"super_returned", "returned"} /\ "raw_data" \in DOMAIN out) =>
        out.raw_data = extracted

\* An extension stage returned records that differ from the rows extracted.
C9_Witness ==
    /\ StageReturned
    /\ extracted.t = "list"
    /\ out.data # <<>>
    /\ out.data # extracted.v
    /\ out.raw_data = extracted

\* The TypeError of a call that names a parameter the callee does not have.
IsCallError(err) ==
    err.type = "TypeError" /\ err.msg # <<>> /\ err.msg[1] = "unexpected keyword argument"

\* C10: every extension stage's entry point returns a dict with the keys of
\* the base stage, 'data', 'metadata' and 'raw_data': it returns nothing
\* else, and it does not fail on a payload by a call of its own that no
\* payload can make succeed.
C10_SameKeys ==
    /\ ppc = "returned" => DOMAIN out = BaseKeys
    /\ ~(ppc = "raised" /\ Overrides(cls, entry) /\ IsCallError(perr))

-----------------------------------------------------------------------------
(* Failure of a stage.                                                     *)

\* C11: an invocation is all-or-nothing: a batch is returned only if every
\* stage succeeded (no stage caught an error of its own and went on), and an
\* invocation that does not return a batch raises the failing stage's error.
C11_AllOrNothing ==
    /\ ppc = "returned" => logged = <<>>
    /\ ppc = "raised" => perr # NoException

\* The records super()'s entry point handed to the stage.
BaseData == BaseTransform(extracted, entry, source, now).value.data

\* The business-rules stage ran on a batch with a price column and a target
\* currency the rate table does not have.
UnknownCurrencyCase ==
    /\ StageReturned
    /\ cls = "BusinessRulesTransformer"
    /\ "convert_currency" \in DOMAIN PriceRules(config.rules)
    /\ config.rules["price"]["convert_currency"] \notin DOMAIN rates
    /\ "price" \in Range(DataFrame(BaseData).columns)

MissingColumnRaised ==
    /\ ppc = "raised"
    /\ cls = "SchemaEnforcerTransformer"
    /\ entry = "api"
    /\ perr.type = "ValueError"
    /\ perr.msg[1] = "Missing required column"

\* The configured columns the batch lacks, by their position in the schema.
MissingColumns ==
    {i \in 1..Len(config.schema) : config.schema[i][1] \notin Range(DataFrame(out.data).columns)}

\* C13: schema enforcement checks the presence of every configured column
\* before it coerces anything: it fails naming the first missing column, and
\* at the moment of the failure no column of the frame has been coerced.
C13_PresenceBeforeCoercion ==
    MissingColumnRaised =>
        /\ MissingColumns # {}
        /\ \A i \in MissingColumns : perr.msg[2] = config.schema[i][1] \/ \E j \in MissingColumns : j < i
        /\ EnforceSchemaFrame(DataFrame(out.data), config.schema) = DataFrame(out.data)

-----------------------------------------------------------------------------
(* MedicalDataTransformer.transform_pg_data. The instance is cls =         *)
(* "MedicalDataTransformer", the entry point "pg", source the query, and   *)
(* config holds anonymize_fields and whether the extractor has a           *)
(* PostgreSQL connection.                                                  *)

\* The columns transform_pg_data coerces to dates by name.
PgDateColumns == <<"birth_date", "record_date">>

\* any(kw in col.lower() for kw in ['date', 'time']), on the model's columns.
IsDateColumnName(c) == c \in {"birth_date", "record_date"}

\* df[c] = pd.to_datetime(df[c], errors='coerce') for each c of cols that is
\* a column of df.
RECURSIVE CoerceDates(_, _)
CoerceDates(df, cols) ==
    IF cols = <<>> THEN df
    ELSE CoerceDates(IF Head(cols) \in Range(df.columns)
                     THEN SetColumn(df, Head(cols), ToDatetimeCoerce(Column(df, Head(cols))))
                     ELSE df,
                     Tail(cols))

\* pd.to_numeric(col, errors='ignore') on an object column: the numbers, or
\* the column as it was.
ToNumericIgnore(col) ==
    IF IsObjectColumn(col) /\ ToNumeric(col).ok THEN ToNumeric(col).value ELSE col

\* MedicalDataTransformer._standardize_data_types(df)
MedStandardizeDataTypes(df) ==
    LET dated == CoerceDates(df, SelectSeq(df.columns, IsDateColumnName))
    IN  [columns |-> dated.columns,
         rows |-> [i \in 1..Len(dated.rows) |->
                      [c \in Range(dated.columns) |-> ToNumericIgnore(Column(dated, c))[i]]]]

\* MedicalDataTransformer._anonymize_data(df): the loop of hash_sensitive_data
\* over self.anonymize_fields.
AnonymizeData(df, fields) == HashSensitiveData(df, fields)

\* json.dumps(x, sort_keys=True, default=str): what is not JSON data is
\* written as its str().
RECURSIVE DefaultStr(_)
DefaultStr(x) ==
    CASE x.t = "dict" -> Dict([i \in 1..Len(x.v) |-> <<x.v[i][1], DefaultStr(x.v[i][2])>>])
      [] x.t = "list" -> List([i \in 1..Len(x.v) |-> DefaultStr(x.v[i])])
      [] x.t \in {"datetime", "ts", "nat"} -> Str(PyStr(x))
      [] OTHER -> x

\* MedicalDataTransformer._generate_metadata(data, source_type) at the clock
\* reading t.
MedGenerateMetadata(data, source_type, t) ==
    [transform_timestamp |-> t,
     source_type |-> source_type,
     data_hash |-> Md5(JsonDumps(DefaultStr(data))),
     record_count |-> Len(data.v),
     schema_version |-> "1.1"]

\* The frame transform_pg_data hands to _anonymize_data.
MedFrame(raw_data) ==
    MedStandardizeDataTypes(CoerceDates(DataFrame(raw_data.v), PgDateColumns))

\* MedicalDataTransformer.transform_pg_data, after the extraction.
MedicalPgTransform(raw_data, anonymize_fields, query, t) ==
    Ret([data |-> ToDictRecords(AnonymizeData(MedFrame(raw_data), anonymize_fields)),
         metadata |-> MedGenerateMetadata(raw_data, "postgresql", t),
         source |-> [type |-> "postgresql", query |-> query, params |-> NONE]])

\* The configurations and the rows the model draws from.
MedConfigs ==
    {[anonymize_fields |-> f, pg_conn |-> c] :
        f \in {<<>>, <<"ssn">>, <<"absent", "ssn">>, <<"id", "ssn">>}, c \in BOOLEAN}

Pat1 == Dict(<< <<"id", Num(7)>>, <<"ssn", Str(<<"x">>)>>,
                <<"birth_date", Str(<<"2", "-", "1", "-", "5">>)>> >>)
Pat2 == Dict(<< <<"id", Num(8)>>, <<"ssn", Str(<<"x">>)>>, <<"birth_date", Str(<<"x">>)>> >>)
Pat3 == Dict(<< <<"id", Num(9)>>, <<"ssn", NONE>> >>)
Pat4 == Dict(<< <<"id", Num(7)>>, <<"ssn", Str(<<"7">>)>> >>)

PgPayloads == {List(rows) : rows \in SeqsUpTo({Pat1, Pat2, Pat3, Pat4}, MaxPgRows)}

MedInit ==
    /\ cls = "MedicalDataTransformer"
    /\ entry = "pg"
    /\ config \in MedConfigs
    /\ source \in Sources
    /\ now \in 1..MaxTime
    /\ ppc = "call"
    /\ extracted = NONE
    /\ out = <<>>
    /\ perr = NoException
    /\ base_meta = <<>>
    /\ prev = <<>>
    /\ logged = <<>>
    /\ NormIdle
    /\ SinkIdle
    /\ ExtIdle
    /\ ImportIdle

\* self.extractor.get_pg_medical_records returns the rows.
MedExtract ==
    /\ ppc = "call"
    /\ config.pg_conn
    /\ \E p \in PgPayloads : extracted' = p
    /\ ppc' = "extracted"
    /\ UNCHANGED <<nvars, svars, xvars, ivars>>
    /\ UNCHANGED <<cls, entry, config, source, now, out, perr, base_meta, prev, logged>>

\* get_pg_medical_records raises: ConnectionError without a connection, the
\* driver's error otherwise. transform_pg_data logs it and re-raises.
MedExtractFails ==
    /\ ppc = "call"
    /\ perr' = IF ~config.pg_conn
               THEN [type |-> "ConnectionError", msg |-> <<"PostgreSQL not configured">>]
               ELSE [type |-> "ExtractionError", msg |-> <<entry>>]
    /\ logged' = Append(logged, perr')
    /\ ppc' = "raised"
    /\ UNCHANGED <<nvars, svars, xvars, ivars>>
    /\ UNCHANGED <<cls, entry, config, source, now, extracted, out, base_meta, prev>>

\* The body of transform_pg_data after the extraction.
MedTransform ==
    /\ ppc = "extracted"
    /\ LET r == MedicalPgTransform(extracted, config.anonymize_fields, source, now)
       IN  /\ out' = r.value
           /\ base_meta' = r.value.metadata
           /\ ppc' = "returned"
    /\ UNCHANGED <<nvars, svars, xvars, ivars>>
    /\ UNCHANGED <<cls, entry, config, source, now, extracted, perr, prev, logged>>

MedNext == MedExtract \/ MedExtractFails \/ MedTransform

SpecMed == MedInit /\ [][MedNext]_vars

\* transform_pg_data returned a batch.
MedReturned == cls = "MedicalDataTransformer" /\ ppc = "returned"

\* The configured fields that are columns of the batch, in configured order.
IsBatchColumn(f) == f \in Range(DataFrame(extracted.v).columns)
AnonymizedFields == SelectSeq(config.anonymize_fields, IsBatchColumn)

\* C14: anonymization is deterministic and null-preserving: for each
\* configured field present in the batch, every non-null value is replaced
\* by its hash, a null value stays null, two records with the same value get
\* the same output, and a configured field that is absent is skipped
\* without error (no column is added for it).
C14_Anonymization ==
    MedReturned =>
        LET before == MedFrame(extracted)
            after == DataFrame(out.data)
        IN  /\ Range(after.columns) = Range(before.columns)
            /\ \A f \in Range(AnonymizedFields) :
                   \A i \in 1..Len(before.rows) :
                       /\ IsNull(before.rows[i][f]) => after.rows[i][f] = before.rows[i][f]
                       /\ ~IsNull(before.rows[i][f]) =>
                              /\ after.rows[i][f] = Sha256(before.rows[i][f])
                              /\ after.rows[i][f] # before.rows[i][f]
                       /\ \A j \in 1..Len(before.rows) :
                              before.rows[i][f] = before.rows[j][f] =>
                                  after.rows[i][f] = after.rows[j][f]

\* A batch with two records of one ssn and a record without ssn was
\* anonymized, an absent field being configured as well.
C14_Witness ==
    /\ MedReturned
    /\ config.anonymize_fields = <<"absent", "ssn">>
    /\ \E i, j \in 1..Len(out.data) :
           /\ i # j
           /\ Item(extracted.v[i], "ssn") = Item(extracted.v[j], "ssn")
           /\ Item(extracted.v[i], "ssn") # NONE
           /\ Item(out.data[i], "ssn") = Item(out.data[j], "ssn")
    /\ \E i \in 1..Len(out.data) : IsNull(Item(out.data[i], "ssn"))

\* The keys _generate_metadata puts into the metadata.
MedGeneratedKeys ==
    {"transform_timestamp", "source_type", "data_hash", "record_count", "schema_version"}

\* C15: after the anonymization stage ran, the metadata of the returned
\* batch records the fields that were anonymized: it has an entry, beside
\* the generated ones, that holds the configured fields present in the batch.
C15_AnonymizedFieldsRecorded ==
    (MedReturned /\ AnonymizedFields # <<>>) =>
        \E k \in DOMAIN out.metadata \ MedGeneratedKeys : out.metadata[k] = AnonymizedFields

\* The quality-metrics stage was reached with a frame that is empty.
EmptyFrameCase ==
    /\ cls = "DataQualityTransformer"
    /\ entry = "db"
    /\ ppc \in {"returned", "raised"}
    /\ extracted # NONE
    /\ BaseTransform(extracted, entry, source, now).ok
    /\ Empty(DataFrame(BaseData))

\* C16: the quality-metrics stage tells the two empty cases apart by the raw
\* payload: on an empty raw payload it succeeds with empty completeness and
\* uniqueness maps; on a frame without rows or columns from a raw payload
\* that is not empty it fails with the empty-batch error.
C16_EmptyCases ==
    EmptyFrameCase =>
        IF extracted.v = <<>>
        THEN /\ ppc = "returned"
             /\ out.metadata.quality_metrics = [completeness |-> <<>>, uniqueness |-> <<>>]
        ELSE /\ ppc = "raised"
             /\ perr = [type |-> "ValueError",
                        msg |-> <<"Cannot calculate metrics for empty DataFrame">>]

\* IncrementLoadTransformer.transform_database_data ended, by a return or by
\* an exception raised after the extraction.
IncrementEnded ==
    /\ cls = "IncrementLoadTransformer"
    /\ entry = "db"
    /\ ppc \in {"returned", "raised"}
    /\ extracted # NONE

\* The configured tracking fields that are not columns of the batch.
MissingTrackingFields ==
    {config.id_field, config.timestamp_field} \ Range(DataFrame(extracted.v).columns)

\* C17: the incremental-load stage fails with the missing-tracking-field
\* error when the configured id field or timestamp field is absent from the
\* batch; otherwise it returns metadata whose max timestamp is one of the
\* rows' timestamps and not below any of them, and whose id list holds each
\* id of the batch exactly once.
C17_IncrementalTracking ==
    IncrementEnded =>
        IF MissingTrackingFields # {}
        THEN /\ ppc = "raised"
             /\ perr.type = "KeyError"
             /\ perr.msg[1] \in MissingTrackingFields
        ELSE /\ ppc = "returned"
             /\ LET ts == Column(DataFrame(extracted.v), config.timestamp_field)
                    ids == Column(DataFrame(extracted.v), config.id_field)
                IN  /\ \E m \in 1..Len(ts) :
                           /\ out.metadata.max_timestamp = Str(PyStr(ts[m]))
                           /\ \A i \in 1..Len(ts) : CellLeq(ts[i], ts[m])
                    /\ Range(out.metadata.record_ids) = Range(ids)
                    /\ Cardinality(Range(ids)) = Len(out.metadata.record_ids)

-----------------------------------------------------------------------------
(* Flattening.                                                             *)

\* The flattener stage returned a batch.
FlattenerReturned == StageReturned /\ cls = "JSONFlattenerTransformer"

\* All values of the mapping are scalar.
IsFlat(d) == \A i \in 1..Len(d.v) : d.v[i][2].t \notin {"dict", "list"}

\* C18: flattening is idempotent: flatten(flatten(m)) == flatten(m) for
\* every record m, and flatten(m) == m when all values of m are scalar.
C18_FlattenIdempotent ==
    FlattenerReturned =>
        \A i \in 1..Len(out.data) :
            /\ out.data[i] = FlattenDict(BaseData[i], "", "_")
            /\ FlattenDict(out.data[i], "", "_") = out.data[i]
            /\ IsFlat(BaseData[i]) => out.data[i] = BaseData[i]

\* A batch with a nested record, which flattening changed, and a flat one.
C18_Witness ==
    /\ FlattenerReturned
    /\ \E i, j \in 1..Len(out.data) :
           /\ ~IsFlat(BaseData[i])
           /\ out.data[i] # BaseData[i]
           /\ IsFlat(out.data[i])
           /\ IsFlat(BaseData[j])
           /\ \E k \in Keys(BaseData[j]) : ~IsNull(Item(BaseData[j], k))

\* The keys flattening is to produce for the items of a mapping, prefix being
\* the text in front of the key: one per scalar value, those of a nested
\* mapping under its key, and those of the mappings in a list under the key
\* and the element's index.
RECURSIVE ExpectedKeys(_, _)
ExpectedKeys(items, prefix) ==
    UNION {LET k == items[n][1]
               v == items[n][2]
           IN  CASE v.t = "dict" -> ExpectedKeys(v.v, prefix \o k \o "_")
                 [] v.t = "list" ->
                      UNION {ExpectedKeys(v.v[j].v, prefix \o k \o "_" \o ToString(j - 1) \o "_") :
                                j \in {e \in 1..Len(v.v) : v.v[e].t = "dict"}}
                 [] OTHER -> {prefix \o k}
           : n \in 1..Len(items)}

\* C19: a list-valued field contributes keys only for its elements that are
\* mappings, each flattened under the parent key and the element's index;
\* scalar elements of a list contribute nothing and never cause an error.
C19_ListElements ==
    /\ FlattenerReturned =>
           \A i \in 1..Len(out.data) : Keys(out.data[i]) = ExpectedKeys(BaseData[i].v, "")
    /\ (cls = "JSONFlattenerTransformer" /\ entry = "api" /\ ppc = "raised" /\ extracted # NONE) =>
           ~BaseTransform(extracted, entry, source, now).ok

\* A record whose list holds a mapping and a scalar was flattened: the
\* mapping's value is under the indexed key, the scalar is nowhere.
C19_Witness ==
    /\ FlattenerReturned
    /\ \E i \in 1..Len(out.data) :
           /\ DictGet(BaseData[i], "l", NONE) = List(<<Dict(<< <<"a", Num(1)>> >>), Num(2)>>)
           /\ DictGet(out.data[i], "l_0_a", NONE) = Num(1)
           /\ \A k \in Keys(out.data[i]) : Item(out.data[i], k) # Num(2)
           /\ "l" \notin Keys(out.data[i])

-----------------------------------------------------------------------------
(* The save operations: UniversalDataTransformer.save_to_data_lake,       *)
(* DataLakeTransformer.save_to_raw_zone and                                *)
(* MedicalDataTransformer.save_to_data_lake. A text (a path, a name) is    *)
(* the sequence of its pieces; "/" is a piece of its own.                  *)

\* c.isalnum() on the pieces the model's names are made of.
IsAlnum(c) == c \in {"s", "1", "v", "unknown", "lake", "src"}

\* "".join(c if c.isalnum() else "_" for c in str(source_name))
CleanSourceName(name) == [i \in 1..Len(name) |-> IF IsAlnum(name[i]) THEN name[i] ELSE "_"]

\* source_info.get('source_name', source_info.get('endpoint', 'unknown'))
SourceNameOf(source_info) ==
    DictGet(source_info, "source_name", DictGet(source_info, "endpoint", Str(<<"unknown">>)))

\* '/'.join(parts)
RECURSIVE JoinSlash(_)
JoinSlash(parts) ==
    IF parts = <<>> THEN <<>>
    ELSE IF Len(parts) = 1 THEN parts[1]
    ELSE parts[1] \o <<"/">> \o JoinSlash(Tail(parts))

\* The file name f"data.{format}".
DataFileName(format) == <<"data.", format>>

\* [f"{col}={df[col].iloc[0]}" for col in partition_cols if col in df.columns]
PartitionValues(df, partition_cols) ==
    LET present == SelectSeq(partition_cols, LAMBDA c : c \in Range(df.columns))
    IN  IF present # <<>> /\ df.rows = <<>>
        THEN Raise("IndexError", <<"single positional indexer is out-of-bounds">>)
        ELSE Ret([i \in 1..Len(present) |->
                     <<present[i], "=">> \o PyStr(df.rows[1][present[i]])])

\* A write that keeps the partition columns in the frame.
KeepColumns(df, cols) == Ret(df)

\* df.drop(columns=cols): KeyError when a label is not a column.
DropColumns(df, cols) ==
    IF \E i \in 1..Len(cols) : cols[i] \notin Range(df.columns)
    THEN Raise("KeyError", <<"not found in axis">>)
    ELSE Ret([columns |-> SelectSeq(df.columns, LAMBDA c : c \notin Range(cols)),
              rows |-> [i \in 1..Len(df.rows) |->
                           [c \in Range(df.columns) \ Range(cols) |-> df.rows[i][c]]]])

\* df.to_parquet / to_json / to_csv (path): the writer makes no directory.
WriteFrame(df, path, written_as, dir_exists) ==
    IF ~dir_exists THEN Raise("OSError", <<"No such file or directory">>)
    ELSE Ret([path |-> path, content |-> [written_as |-> written_as, frame |-> df]])

\* _save_partitioned(df, storage_path, source_name_clean, format,
\* partition_cols, timestamp)
SavePartitioned(df, storage_path, source_name_clean, format, partition_cols, dir_exists) ==
    LET partition_values == PartitionValues(df, partition_cols)
        path == storage_path \o <<"/">> \o source_name_clean \o <<"/">>
                \o JoinSlash(partition_values.value) \o <<"/">> \o DataFileName(format)
        dropped == DropColumns(df, partition_cols)
    IN  IF ~partition_values.ok THEN partition_values
        ELSE IF ~dropped.ok THEN dropped
        ELSE WriteFrame(dropped.value, path, "parquet", dir_exists)

\* The formats _save_non_partitioned has a handler for.
format_handlers == {"parquet", "json", "csv"}

\* _save_non_partitioned(df, storage_path, source_name_clean, format, _,
\* timestamp)
SaveNonPartitioned(df, storage_path, source_name_clean, format, timestamp, dir_exists) ==
    LET path == storage_path \o <<"/">> \o source_name_clean \o <<"/">> \o timestamp
                \o <<"/">> \o DataFileName(format)
    IN  IF format \notin format_handlers
        THEN Raise("ValueError", <<"Unsupported format", format>>)
        ELSE WriteFrame(df, path, format, dir_exists)

\* text.replace(old, new): every occurrence, from the left.
RECURSIVE ReplaceAll(_, _, _)
ReplaceAll(text, old, new) ==
    IF Len(text) < Len(old) THEN text
    ELSE IF SubSeq(text, 1, Len(old)) = old
    THEN new \o ReplaceAll(SubSeq(text, Len(old) + 1, Len(text)), old, new)
    ELSE <<Head(text)>> \o ReplaceAll(Tail(text), old, new)

\* datetime.utcnow().strftime("%Y%m%d_%H%M%S") at the clock reading t.
Strftime(t) == <<ToString(t)>>

\* The batches, source descriptions and arguments the model draws from.
Org1 == Dict(<< <<"org", Str(<<"A">>)>>, <<"id", Num(7)>>, <<"price", Num(1)>> >>)
Org2 == Dict(<< <<"org", Str(<<"B">>)>>, <<"id", Num(8)>>, <<"price", Num(2)>> >>)
NoOrg == Dict(<< <<"id", Num(9)>>, <<"price", Num(3)>> >>)

SinkBatches == SeqsUpTo({Org1, Org2, NoOrg}, MaxRows)

\* transformed_data['source']; NONE when transformed_data has no such key.
SourceInfos ==
    {Dict(<< <<"source_name", Str(<<"s", "1">>)>> >>),
     Dict(<< <<"endpoint", Str(<<"/", "v", "1">>)>> >>),
     Dict(<<>>),
     NONE}

\* transformed_data['source'] as MedicalDataTransformer's entry points build
\* it, and as a caller may leave it.
MedSourceInfos ==
    {Dict(<< <<"type", Str(<<"fhir">>)>>, <<"resource_type", Str(<<"Patient">>)>> >>),
     Dict(<< <<"type", Str(<<"postgresql">>)>> >>),
     Dict(<< <<"type", Str(<<"elasticsearch">>)>>, <<"index", Str(<<"idx">>)>> >>),
     Dict(<<>>),
     NONE}

\* transformed_data['metadata']['source_system']
SourceSystems == {<<"src">>, <<"src", ":", "v", "1">>}

\* storage_path: a directory, here one named lake and one named data.parquet.
StoragePaths == {<<"lake">>, <<"data.", "parquet">>}

\* format
Formats == {"parquet", "json", "csv", "xml"}

\* partition_cols; <<>> stands for the default None and for [], both falsy.
PartitionChoices == {<<>>, <<"org">>, <<"org", "id">>, <<"absent", "org">>}

\* The sink classes.
SinkClasses == {"UniversalDataTransformer", "DataLakeTransformer", "MedicalDataTransformer"}

\* The arguments of UniversalDataTransformer.save_to_data_lake: the instance
\* has a logger only if its user has set one.
UniversalArgs ==
    [cls : {"UniversalDataTransformer"},
     data : SinkBatches,
     source : SourceInfos,
     source_system : {<<"src">>},
     storage_path : StoragePaths,
     format : Formats,
     partition_cols : PartitionChoices,
     clock : 1..MaxTime,
     dir_exists : BOOLEAN,
     other_dirs_exist : BOOLEAN,
     has_logger : BOOLEAN]

\* The arguments of DataLakeTransformer.save_to_raw_zone.
RawZoneArgs ==
    [cls : {"DataLakeTransformer"},
     data : SinkBatches,
     source : {NONE},
     source_system : SourceSystems,
     storage_path : StoragePaths,
     format : Formats,
     partition_cols : {<<>>},
     clock : 1..MaxTime,
     dir_exists : BOOLEAN,
     other_dirs_exist : BOOLEAN,
     has_logger : {TRUE}]

\* The arguments of MedicalDataTransformer.save_to_data_lake.
MedicalArgs ==
    [cls : {"MedicalDataTransformer"},
     data : SinkBatches,
     source : MedSourceInfos,
     source_system : {<<"src">>},
     storage_path : StoragePaths,
     format : Formats,
     partition_cols : {<<>>},
     clock : 1..MaxTime,
     dir_exists : BOOLEAN,
     other_dirs_exist : BOOLEAN,
     has_logger : {TRUE}]

\* dir_exists: the directory of the output path exists; other_dirs_exist:
\* so does any other directory the call opens a file in.
SinkArgs == UniversalArgs \cup RawZoneArgs \cup MedicalArgs

SinkInit ==
    /\ sargs \in SinkArgs
    /\ spc = "call"
    /\ files = <<>>
    /\ output_path = <<>>
    /\ sout = NONE
    /\ serr = NoException
    /\ NormIdle
    /\ PipeIdle
    /\ ExtIdle
    /\ ImportIdle

\* The exception that leaves save_to_data_lake when err was raised in its
\* try block: the handler calls self.logger.error before it re-raises.
RaisedBySave(err) ==
    IF sargs.has_logger THEN err
    ELSE [type |-> "AttributeError", msg |-> <<"no attribute", "logger">>]

\* partition_cols is truthy.
Partitioned == sargs.partition_cols # <<>>

\* The if/elif chain on format of save_to_raw_zone and of
\* MedicalDataTransformer.save_to_data_lake.
WriteByFormat(df, path, format, dir_exists) ==
    IF format \in {"parquet", "json", "csv"}
    THEN WriteFrame(df, path, format, dir_exists)
    ELSE Raise("ValueError", <<"Unsupported format", format>>)

\* save_to_raw_zone up to the write of the data file.
RawZoneResult ==
    LET df == ConvertToDataFrame(List(sargs.data))
        source_name_clean == CleanSourceName(sargs.source_system)
        path == sargs.storage_path \o <<"/">> \o source_name_clean \o <<"/">>
                \o Strftime(sargs.clock) \o <<"/">> \o DataFileName(sargs.format)
    IN  IF ~df.ok THEN df
        ELSE WriteByFormat(df.value, path, sargs.format, sargs.dir_exists)

\* MedicalDataTransformer.save_to_data_lake up to the write of the data file.
MedicalSaveResult ==
    LET df == DataFrame(sargs.data)
        source_info == sargs.source
        resource_type == DictGet(source_info, "resource_type",
                                 DictGet(source_info, "index", Str(<<"unknown">>)))
        path == sargs.storage_path \o <<"/">> \o PyStr(Item(source_info, "type")) \o <<"/">>
                \o PyStr(resource_type) \o <<"/">> \o Strftime(sargs.clock)
                \o <<"/">> \o DataFileName(sargs.format)
    IN  IF source_info = NONE THEN Raise("KeyError", <<"source">>)
        ELSE IF "type" \notin Keys(source_info) THEN Raise("KeyError", <<"type">>)
        ELSE WriteByFormat(df, path, sargs.format, sargs.dir_exists)

\* The call of the save handler, with the arguments save_to_data_lake builds.
UniversalSaveResult ==
    LET df == DataFrame(sargs.data)
        source_name_clean == CleanSourceName(PyStr(SourceNameOf(sargs.source)))
    IN  IF sargs.source = NONE THEN Raise("KeyError", <<"source">>)
        ELSE IF Partitioned
        THEN SavePartitioned(df, sargs.storage_path, source_name_clean, sargs.format,
                             sargs.partition_cols, sargs.dir_exists)
        ELSE SaveNonPartitioned(df, sargs.storage_path, source_name_clean, sargs.format,
                                Strftime(sargs.clock), sargs.dir_exists)

\* The save operation of the instance's class, up to the data file.
HandlerResult ==
    CASE sargs.cls = "UniversalDataTransformer" -> UniversalSaveResult
      [] sargs.cls = "DataLakeTransformer" -> RawZoneResult
      [] sargs.cls = "MedicalDataTransformer" -> MedicalSaveResult

\* The save operation up to the write of the data file: the data file is
\* written, or the call ends with an exception.
SaveData ==
    /\ spc = "call"
    /\ LET r == HandlerResult
       IN  IF r.ok
           THEN /\ files' = (r.value.path :> r.value.content) @@ files
                /\ output_path' = r.value.path
                /\ spc' = "data_written"
                /\ serr' = serr
           ELSE /\ serr' = RaisedBySave(r.value)
                /\ spc' = "raised"
                /\ UNCHANGED <<files, output_path>>
    /\ UNCHANGED <<sargs, sout>>
    /\ UNCHANGED <<nvars, pvars, xvars, ivars>>

\* A metadata path that is the data file's own path.
MetadataPathSame(path, format) == path

\* metadata_path = output_path.replace(f"data.{format}", "metadata.json")
MetadataPath(path, format) == ReplaceAll(path, DataFileName(format), <<"metadata.json">>)

\* metadata_path of save_to_raw_zone: built anew from its parts.
RawZoneMetadataPath ==
    sargs.storage_path \o <<"/">> \o CleanSourceName(sargs.source_system) \o <<"/">>
    \o Strftime(sargs.clock) \o <<"/">> \o <<"metadata.json">>

\* The metadata path the call computes.
metadata_path ==
    IF sargs.cls = "DataLakeTransformer" THEN RawZoneMetadataPath
    ELSE MetadataPath(output_path, sargs.format)

\* The directory of a file path: the path up to its last "/".
RECURSIVE DirName(_)
DirName(path) ==
    IF path = <<>> THEN <<>>
    ELSE IF path[Len(path)] = "/" THEN SubSeq(path, 1, Len(path) - 1)
    ELSE DirName(SubSeq(path, 1, Len(path) - 1))

\* open(metadata_path, 'w') finds its directory: the one the data file was
\* written in exists, another one may not.
MetadataDirExists ==
    IF DirName(metadata_path) = DirName(output_path) THEN TRUE
    ELSE sargs.other_dirs_exist

\* The metadata sidecar is written, or open() raises.
SaveMetadata ==
    /\ spc = "data_written"
    /\ IF MetadataDirExists
       THEN /\ files' = (metadata_path :>
                           [written_as |-> "json",
                            metadata |-> [record_count |-> Len(sargs.data)]])
                       @@ files
            /\ spc' = "metadata_written"
            /\ serr' = serr
       ELSE /\ serr' = RaisedBySave([type |-> "FileNotFoundError",
                                     msg |-> <<"No such file or directory">>])
            /\ spc' = "raised"
            /\ files' = files
    /\ UNCHANGED <<sargs, output_path, sout>>
    /\ UNCHANGED <<nvars, pvars, xvars, ivars>>

\* self.logger.info(...) and return output_path.
SaveReturn ==
    /\ spc = "metadata_written"
    /\ IF sargs.has_logger
       THEN /\ sout' = output_path
            /\ spc' = "returned"
            /\ serr' = serr
       ELSE /\ serr' = RaisedBySave([type |-> "AttributeError", msg |-> <<"no attribute", "logger">>])
            /\ spc' = "raised"
            /\ sout' = sout
    /\ UNCHANGED <<sargs, files, output_path>>
    /\ UNCHANGED <<nvars, pvars, xvars, ivars>>

SinkNext == SaveData \/ SaveMetadata \/ SaveReturn

SpecSink == SinkInit /\ [][SinkNext]_vars

\* The pieces of a path between its "/" pieces.
RECURSIVE Segments(_)
Segments(path) ==
    IF "/" \notin Range(path) THEN <<path>>
    ELSE LET cut == CHOOSE i \in 1..Len(path) :
                        path[i] = "/" /\ \A j \in 1..(i - 1) : path[j] # "/"
         IN  <<SubSeq(path, 1, cut - 1)>> \o Segments(SubSeq(path, cut + 1, Len(path)))

\* The data file was written by a save with partition columns that are all
\* columns of the batch.
PartitionedSaveDone ==
    /\ spc \in {"data_written", "metadata_written", "returned"}
    /\ Partitioned
    /\ Range(sargs.partition_cols) \subseteq Range(DataFrame(sargs.data).columns)

\* C20: when partition columns are supplied and all exist in the batch, the
\* output path has one 'col=value' segment per partition column, built from
\* the first row's value, and no partition column is in the persisted data.
C20_PartitionedSave ==
    PartitionedSaveDone =>
        /\ output_path \in DOMAIN files
        /\ \A i \in 1..Len(sargs.partition_cols) :
               Segments(output_path)[2 + i] =
                   <<sargs.partition_cols[i], "=">>
                   \o PyStr(DataFrame(sargs.data).rows[1][sargs.partition_cols[i]])
        /\ Len(Segments(output_path)) = 3 + Len(sargs.partition_cols)
        /\ Range(files[output_path].frame.columns) \cap Range(sargs.partition_cols) = {}
        /\ Range(files[output_path].frame.columns) =
               Range(DataFrame(sargs.data).columns) \ Range(sargs.partition_cols)

\* Two rows of org A and B saved with partition_cols = ["org", "id"].
C20_Witness ==
    /\ PartitionedSaveDone
    /\ sargs.partition_cols = <<"org", "id">>
    /\ Len(sargs.data) = 2
    /\ DictGet(sargs.data[1], "org", NONE) = Str(<<"A">>)
    /\ DictGet(sargs.data[2], "org", NONE) = Str(<<"B">>)
    /\ <<"org", "=", "A">> \in Range(Segments(output_path))
    /\ files[output_path].frame.columns = <<"price">>

-----------------------------------------------------------------------------
(* Claims about the save operations. *)

\* transformed_data holds the source description the class's save reads.
SourceDescribed ==
    CASE sargs.cls = "UniversalDataTransformer" -> sargs.source # NONE
      [] sargs.cls = "MedicalDataTransformer" ->
             sargs.source # NONE /\ "type" \in Keys(sargs.source)
      [] OTHER -> TRUE

\* The save was called with a format that is none of parquet, json, csv.
UnknownFormatSave ==
    /\ spc # "idle"
    /\ sargs.format \notin {"parquet", "json", "csv"}
    /\ SourceDescribed

\* C21: a save with a format outside {parquet, json, csv} fails with the
\* unsupported-format error (ValueError "Unsupported format") and writes
\* nothing, neither data file nor metadata sidecar, in every save operation,
\* partitioned or not.
C21_UnsupportedFormat ==
    UnknownFormatSave =>
        /\ files = <<>>
        /\ spc # "call" =>
               /\ spc = "raised"
               /\ serr.type = "ValueError"
               /\ serr.msg = <<"Unsupported format", sargs.format>>

\* The paths of the storage that hold a data file, and a metadata sidecar.
DataFiles == {p \in DOMAIN files : "frame" \in DOMAIN files[p]}
MetadataFiles == {p \in DOMAIN files : "metadata" \in DOMAIN files[p]}

\* C22: in every save operation the metadata sidecar is written only after
\* the data file has been written: in no state is the metadata file present
\* while the data file is absent, and a save that returned a path has written
\* both files.
C22_MetadataAfterData ==
    /\ MetadataFiles # {} =>
           /\ spc \in {"metadata_written", "returned", "raised"}
           /\ output_path \in DataFiles
           /\ MetadataFiles = {metadata_path}
    /\ spc = "returned" =>
           /\ sout = output_path
           /\ sout \in DataFiles
           /\ metadata_path \in MetadataFiles

\* save_to_raw_zone returned its path with both files written.
C22_Witness ==
    /\ spc = "returned"
    /\ sargs.cls = "DataLakeTransformer"
    /\ sargs.format = "json"
    /\ Cardinality(DOMAIN files) = 2
    /\ sout \in DataFiles

\* C23: for every storage path, source name, format and partition choice
\* the metadata sidecar path is the data file's path with only the final
\* file name replaced by metadata.json: both files are in one directory.
C23_SameDirectory ==
    spc \in {"data_written", "metadata_written", "returned"} =>
        /\ metadata_path = DirName(output_path) \o <<"/", "metadata.json">>
        /\ spc # "data_written" => metadata_path \in MetadataFiles

-----------------------------------------------------------------------------
(* The extractors: UniversalDataExtractor and MedicalAppExtractor, a fetch *)
(* from the database and the release of the instance's resources, by       *)
(* close() or at the end of a with block.                                  *)

\* The attributes of an instance that can hold a resource.
Resources == {"session", "pg_conn", "es_client"}

\* A UniversalDataExtractor, its user and its environment: db_connection is
\* the argument of from_database (FALSE: None), close_fails the resources
\* whose close() raises, query_fails whether cursor.execute raises, rows
\* what fetchall returns.
UniversalExtArgs ==
    [cls : {"UniversalDataExtractor"},
     pg_config : {FALSE},
     es_config : {FALSE},
     db_connection : BOOLEAN,
     scoped : BOOLEAN,
     close_fails : SUBSET {"session"},
     query_fails : BOOLEAN,
     rows : {<<>>, <<RowA1>>, <<RowA1, RowA2>>}]

\* A MedicalAppExtractor built with pg_config and es_config given or not.
MedicalExtArgs ==
    [cls : {"MedicalAppExtractor"},
     pg_config : BOOLEAN,
     es_config : BOOLEAN,
     db_connection : {FALSE},
     scoped : BOOLEAN,
     close_fails : SUBSET Resources,
     query_fails : BOOLEAN,
     rows : {<<>>, <<RowA1>>, <<RowA1, RowA2>>}]

ExtArgs == UniversalExtArgs \cup MedicalExtArgs

\* __init__: the session is made; MedicalAppExtractor connects to PostgreSQL
\* and Elasticsearch when their configuration is given.
Constructed(a) ==
    [r \in Resources |->
        CASE r = "session" -> "open"
          [] r = "pg_conn" -> IF a.pg_config THEN "open" ELSE "none"
          [] r = "es_client" -> IF a.es_config THEN "open" ELSE "none"]

ExtInit ==
    /\ xargs \in ExtArgs
    /\ xpc = "constructed"
    /\ xres = Constructed(xargs)
    /\ xqueries = <<>>
    /\ xout = NONE
    /\ xerr = NoException
    /\ NormIdle
    /\ PipeIdle
    /\ SinkIdle
    /\ ImportIdle

\* The order in which close() releases the attributes of the class.
CloseOrder(c) ==
    IF c = "UniversalDataExtractor" THEN <<"session">>
    ELSE <<"session", "pg_conn", "es_client">>

\* close(): each attribute that is set is closed in turn; a close() that
\* raises ends the method there.
RECURSIVE CloseInOrder(_, _, _)
CloseInOrder(order, res, fails) ==
    IF order = <<>> THEN [res |-> res, err |-> NoException]
    ELSE LET r == Head(order)
         IN  IF res[r] = "none" THEN CloseInOrder(Tail(order), res, fails)
             ELSE IF r \in fails
             THEN [res |-> res, err |-> [type |-> "Exception", msg |-> <<"close", r>>]]
             ELSE CloseInOrder(Tail(order), [res EXCEPT ![r] = "closed"], fails)

\* cursor.execute(query) and the rows read: the query is issued, then it
\* raises or the rows come back as dicts.
ExecuteQuery ==
    IF xargs.query_fails THEN Raise("DatabaseError", <<"query">>)
    ELSE Ret(List(xargs.rows))

\* The user is where a fetch can be called.
CanFetch ==
    \/ xpc = "constructed" /\ ~xargs.scoped
    \/ xpc = "in_block"

\* __enter__
ExtractorEnter ==
    /\ xpc = "constructed"
    /\ xargs.scoped
    /\ xpc' = "in_block"
    /\ UNCHANGED <<xargs, xres, xqueries, xout, xerr>>
    /\ UNCHANGED <<nvars, pvars, svars, ivars>>

\* UniversalDataExtractor.from_database(query, db_connection)
FromDatabase ==
    /\ xargs.cls = "UniversalDataExtractor"
    /\ CanFetch
    /\ LET r == IF ~xargs.db_connection
                THEN Raise("AttributeError", <<"NoneType", "cursor">>)
                ELSE ExecuteQuery
       IN  /\ xqueries' = IF xargs.db_connection THEN Append(xqueries, "query") ELSE xqueries
           /\ xout' = IF r.ok THEN r.value ELSE xout
           /\ xerr' = IF r.ok THEN xerr ELSE r.value
           /\ xpc' = IF r.ok THEN "fetched" ELSE "fetch_raised"
    /\ UNCHANGED <<xargs, xres>>
    /\ UNCHANGED <<nvars, pvars, svars, ivars>>

\* MedicalAppExtractor.get_pg_medical_records(query, params)
GetPgMedicalRecords ==
    /\ xargs.cls = "MedicalAppExtractor"
    /\ CanFetch
    /\ LET r == IF xres["pg_conn"] = "none"
                THEN Raise("ConnectionError", <<"PostgreSQL not configured">>)
                ELSE ExecuteQuery
       IN  /\ xqueries' = IF xres["pg_conn"] # "none" THEN Append(xqueries, "query")
                          ELSE xqueries
           /\ xout' = IF r.ok THEN r.value ELSE xout
           /\ xerr' = IF r.ok THEN xerr ELSE r.value
           /\ xpc' = IF r.ok THEN "fetched" ELSE "fetch_raised"
    /\ UNCHANGED <<xargs, xres>>
    /\ UNCHANGED <<nvars, pvars, svars, ivars>>

\* The code inside the with block raises.
BlockRaises ==
    /\ xpc = "in_block"
    /\ xpc' = "block_raised"
    /\ xerr' = [type |-> "Exception", msg |-> <<"block">>]
    /\ UNCHANGED <<xargs, xres, xqueries, xout>>
    /\ UNCHANGED <<nvars, pvars, svars, ivars>>

\* close(), called by the user of an instance that is not in a with block.
ExtractorClose ==
    /\ ~xargs.scoped
    /\ xpc \in {"constructed", "fetched", "fetch_raised"}
    /\ LET r == CloseInOrder(CloseOrder(xargs.cls), xres, xargs.close_fails)
       IN  /\ xres' = r.res
           /\ xerr' = IF r.err = NoException THEN xerr ELSE r.err
           /\ xpc' = IF r.err = NoException THEN "closed" ELSE "close_raised"
    /\ UNCHANGED <<xargs, xqueries, xout>>
    /\ UNCHANGED <<nvars, pvars, svars, ivars>>

\* __exit__(exc_type, exc_val, exc_tb): self.close(), on every way out of
\* the with block.
ExtractorExit ==
    /\ xargs.scoped
    /\ xpc \in {"in_block", "fetched", "fetch_raised", "block_raised"}
    /\ LET r == CloseInOrder(CloseOrder(xargs.cls), xres, xargs.close_fails)
       IN  /\ xres' = r.res
           /\ xerr' = IF r.err = NoException THEN xerr ELSE r.err
           /\ xpc' = IF r.err = NoException THEN "closed" ELSE "close_raised"
    /\ UNCHANGED <<xargs, xqueries, xout>>
    /\ UNCHANGED <<nvars, pvars, svars, ivars>>

ExtNext ==
    \/ ExtractorEnter
    \/ FromDatabase
    \/ GetPgMedicalRecords
    \/ BlockRaises
    \/ ExtractorClose
    \/ ExtractorExit

SpecExt == ExtInit /\ [][ExtNext]_vars

\* close() or __exit__ has ended.
CloseEnded == xpc \in {"closed", "close_raised"}

\* C24: every resource the instance holds is released when the extractor is
\* closed, by close() or on any way out of a with block: afterwards no held
\* resource is open, even if releasing one of them fails (the one whose own
\* close() raised apart).
C24_ReleaseAll ==
    CloseEnded =>
        \A r \in Resources \ xargs.close_fails : xres[r] # "open"

\* A fetch was called without a connection and has ended.
FetchedWithoutConnection ==
    /\ xpc = "fetch_raised"
    /\ \/ xargs.cls = "UniversalDataExtractor" /\ ~xargs.db_connection
       \/ xargs.cls = "MedicalAppExtractor" /\ ~xargs.pg_config

\* C25: a database fetch with an absent connection fails with
\* ConnectionError and issues no query, in from_database and in
\* get_pg_medical_records.
C25_AbsentConnection ==
    /\ FetchedWithoutConnection =>
           /\ xerr.type = "ConnectionError"
           /\ xqueries = <<>>
    /\ (xpc = "fetched" /\ xargs.cls = "UniversalDataExtractor") => xargs.db_connection
    /\ (xpc = "fetched" /\ xargs.cls = "MedicalAppExtractor") => xargs.pg_config

-----------------------------------------------------------------------------
(* Import jobs: the route import_records, ImportService and the background *)
(* task process_import_job. job is the committed row of the one job the    *)
(* model follows.                                                          *)

\* ImportStatus
PENDING == "pending"
PROCESSING == "processing"
COMPLETED == "completed"
FAILED == "failed"

\* total_records = 100
total_records == 100

\* A call of a method of app.core.logger.Logger with the keyword arguments
\* kwargs: error, info, warning and debug take the message and nothing else.
LoggerCall(kwargs) ==
    IF kwargs = {} THEN Ret(NONE)
    ELSE Raise("TypeError", <<"unexpected keyword argument">>)

\* The except block of verify_organization_access: logger.error(...,
\* exc_info=True, extra={...}) and return False.
VerifyExcept ==
    LET logged_error == LoggerCall({"exc_info", "extra"})
    IN  IF logged_error.ok THEN Ret(FALSE) ELSE logged_error

\* ImportService.verify_organization_access(api_key, source_org_id,
\* destination_org_id), where a.key is what verify_api_key says of the key,
\* a.source_org and a.dest_org what the table holds for the two ids, and
\* a.query_raises whether self.db.query raises.
VerifyOrganizationAccess(a) ==
    LET source_org == a.source_org = "active"
        dest_org == a.dest_org = "active"
        warned == LoggerCall({"extra"})
    IN  IF a.key = "invalid" THEN Ret(FALSE)
        ELSE IF a.query_raises THEN VerifyExcept
        ELSE IF ~source_org \/ ~dest_org
        THEN IF warned.ok THEN Ret(FALSE) ELSE VerifyExcept
        ELSE Ret(TRUE)

\* What a call returned or the type of what it raised, as a text.
Outcome(r) == IF ~r.ok THEN r.value.type ELSE IF r.value THEN "True" ELSE "False"

\* The row import_records adds.
NewJob == [status |-> PENDING, records_processed |-> 0, total_records |-> -1,
           message |-> "Job queued"]

\* Rows a job can have been left in by an earlier run of the task.
StoppedJob == [status |-> PROCESSING, records_processed |-> 3, total_records |-> -1,
               message |-> "Import in progress"]
CompletedJob == [status |-> COMPLETED, records_processed |-> total_records,
                 total_records |-> total_records, message |-> "Successfully imported"]

\* A request to import_records: no job yet, no task.
RequestArgs ==
    [key : {"valid", "invalid"},
     source_org : {"active", "inactive", "absent"},
     dest_org : {"active", "inactive", "absent"},
     query_raises : BOOLEAN,
     job0 : {NoJob}]

\* A run of process_import_job for the job id of a row the table holds or
\* not, called with all its arguments or, as add_task passes them, without
\* api_key.
TaskArgs ==
    [key : {"valid"},
     source_org : {"active"},
     dest_org : {"active"},
     query_raises : {FALSE},
     job0 : {NoJob, NewJob, StoppedJob, CompletedJob}]

ImportInit ==
    /\ \/ /\ iargs \in RequestArgs
          /\ ipc = "ready"
          /\ tasks = <<>>
       \/ /\ iargs \in TaskArgs
          /\ ipc = "idle"
          /\ tasks \in {<<[api_key |-> TRUE]>>, <<[api_key |-> FALSE]>>}
    /\ job = iargs.job0
    /\ iresp = 0
    /\ iverify = "none"
    /\ wpc = "idle"
    /\ wi = 0
    /\ werr = NoException
    /\ NormIdle
    /\ PipeIdle
    /\ SinkIdle
    /\ ExtIdle

\* import_records(request, background_tasks, db, api_key): the whole handler.
\* db.commit() succeeds or raises.
ImportRecords ==
    /\ ipc = "ready"
    /\ LET verified == VerifyOrganizationAccess(iargs)
           created == LoggerCall({"extra"})
       IN  /\ iverify' = Outcome(verified)
           /\ \E commit_ok \in BOOLEAN :
                  IF ~verified.ok
                  THEN /\ iresp' = 500
                       /\ UNCHANGED <<job, tasks>>
                  ELSE IF ~verified.value
                  THEN /\ iresp' = 403
                       /\ UNCHANGED <<job, tasks>>
                  ELSE IF ~commit_ok
                  THEN /\ iresp' = 500
                       /\ UNCHANGED <<job, tasks>>
                  ELSE /\ job' = NewJob
                       /\ IF created.ok
                          THEN /\ tasks' = Append(tasks, [api_key |-> FALSE])
                               /\ iresp' = 202
                          ELSE /\ tasks' = tasks
                               /\ iresp' = 500
    /\ ipc' = "responded"
    /\ UNCHANGED <<iargs, wpc, wi, werr>>
    /\ UNCHANGED <<nvars, pvars, svars, xvars>>

\* The except and finally blocks of process_import_job after e was raised
\* in the try block, as [job, wpc, werr]: db.rollback(), logger.error(...,
\* exc_info=True), then the job is marked FAILED and committed.
TaskExcept(e, commit_ok) ==
    LET logged_error == LoggerCall({"exc_info"})
    IN  IF ~logged_error.ok
        THEN [job |-> job, wpc |-> "raised", werr |-> logged_error.value]
        ELSE IF job.status = "absent"
        THEN [job |-> job, wpc |-> "returned", werr |-> NoException]
        ELSE IF ~commit_ok
        THEN [job |-> job, wpc |-> "raised",
              werr |-> [type |-> "SQLAlchemyError", msg |-> <<"commit">>]]
        ELSE [job |-> [job EXCEPT !.status = FAILED, !.message = "Import failed"],
              wpc |-> "returned", werr |-> NoException]

\* The task is run: process_import_job up to its first commit.
TaskStart ==
    /\ tasks # <<>>
    /\ wpc = "idle"
    /\ tasks' = Tail(tasks)
    /\ \E commit_ok \in BOOLEAN, commit2_ok \in BOOLEAN :
           LET e == [type |-> "SQLAlchemyError", msg |-> <<"commit">>]
               h == TaskExcept(e, commit2_ok)
           IN  IF ~Head(tasks).api_key
               THEN /\ wpc' = "raised"
                    /\ werr' = [type |-> "TypeError",
                                msg |-> <<"missing argument", "api_key">>]
                    /\ UNCHANGED <<job, wi>>
               ELSE IF job.status = "absent"
               THEN /\ wpc' = "returned"
                    /\ UNCHANGED <<job, wi, werr>>
               ELSE IF commit_ok
               THEN /\ job' = [job EXCEPT !.status = PROCESSING,
                                          !.message = "Import in progress"]
                    /\ wpc' = "loop"
                    /\ wi' = 0
                    /\ werr' = werr
               ELSE /\ job' = h.job
                    /\ wpc' = h.wpc
                    /\ werr' = h.werr
                    /\ wi' = wi
    /\ UNCHANGED <<iargs, ipc, iresp, iverify>>
    /\ UNCHANGED <<nvars, pvars, svars, xvars>>

\* One turn of the loop: job.records_processed = i and db.commit().
ProcessRecord ==
    /\ wpc = "loop"
    /\ wi < total_records
    /\ \E commit_ok \in BOOLEAN, commit2_ok \in BOOLEAN :
           LET e == [type |-> "SQLAlchemyError", msg |-> <<"commit">>]
               h == TaskExcept(e, commit2_ok)
           IN  IF commit_ok
               THEN /\ job' = [job EXCEPT !.records_processed = wi + 1]
                    /\ wi' = wi + 1
                    /\ UNCHANGED <<wpc, werr>>
               ELSE /\ job' = h.job
                    /\ wpc' = h.wpc
                    /\ werr' = h.werr
                    /\ wi' = wi + 1
    /\ UNCHANGED <<iargs, ipc, iresp, iverify, tasks>>
    /\ UNCHANGED <<nvars, pvars, svars, xvars>>

\* After the loop: the job is marked COMPLETED and committed.
Complete ==
    /\ wpc = "loop"
    /\ wi = total_records
    /\ \E commit_ok \in BOOLEAN, commit2_ok \in BOOLEAN :
           LET e == [type |-> "SQLAlchemyError", msg |-> <<"commit">>]
               h == TaskExcept(e, commit2_ok)
           IN  IF commit_ok
               THEN /\ job' = [job EXCEPT !.status = COMPLETED,
                                          !.total_records = total_records,
                                          !.message = "Successfully imported"]
                    /\ wpc' = "returned"
                    /\ werr' = werr
               ELSE /\ job' = h.job
                    /\ wpc' = h.wpc
                    /\ werr' = h.werr
    /\ UNCHANGED <<iargs, ipc, iresp, iverify, tasks, wi>>
    /\ UNCHANGED <<nvars, pvars, svars, xvars>>

ImportNext == ImportRecords \/ TaskStart \/ ProcessRecord \/ Complete

SpecImport == ImportInit /\ [][ImportNext]_vars

\* A request is answered and a task that was added is run to its end.
SpecImportLive == SpecImport /\ WF_vars(ImportNext)

\* C26: verify_organization_access returns True exactly when the API key
\* verifies and both organizations exist and are active; in every other
\* case, also when the database query raises, it returns False and never
\* raises.
C26_VerifyAccess ==
    ipc = "responded" =>
        /\ iverify \in {"True", "False"}
        /\ iverify = "True" <=>
               /\ iargs.key = "valid"
               /\ ~iargs.query_raises
               /\ iargs.source_org = "active"
               /\ iargs.dest_org = "active"

\* The statuses a job ends in.
Terminal == {COMPLETED, FAILED}

\* C29: every import job created by import_records reaches a terminal
\* status (COMPLETED or FAILED) once its background task is run: it does not
\* stay PENDING or PROCESSING forever, also when the task or a commit raises.
C29_EventuallyTerminal ==
    (job.status \in {PENDING, PROCESSING}) ~> (job.status \in Terminal)

\* The place of a status in the order PENDING, PROCESSING, terminal.
StatusRank(st) ==
    CASE st = "absent" -> 0
      [] st = PENDING -> 1
      [] st = PROCESSING -> 2
      [] st \in Terminal -> 3

\* C30: the status of a job only moves forward, PENDING to PROCESSING to
\* COMPLETED or FAILED: process_import_job never takes a terminal job back
\* to a status that is not terminal, records_processed never decreases, and
\* whenever the status is COMPLETED records_processed equals total_records.
C30_ForwardOnly ==
    [][/\ StatusRank(job'.status) >= StatusRank(job.status)
       /\ job.status \in Terminal => job'.status \in Terminal
       /\ job'.records_processed >= job.records_processed
       /\ job'.status = COMPLETED => job'.records_processed = job'.total_records]_vars

-----------------------------------------------------------------------------
(* Claims about schema enforcement and flattening (SpecPipe).              *)

\* The schema-enforcement stage returned a batch.
EnforcerReturned == StageReturned /\ cls = "SchemaEnforcerTransformer"

\* The value can be converted to the declared type; a null stays a null.
Coercible(x, dtype) ==
    \/ IsNull(x)
    \/ CASE dtype = "datetime" ->
              x.t \in {"ts", "num"} \/ (x.t = "str" /\ ParsesAsTimestamp(x.v))
         [] dtype = "int" -> x.t = "num" \/ (x.t = "str" /\ IsDigits(x.v))
         [] dtype = "str" -> TRUE
         [] OTHER -> FALSE

\* The kind of value a declared type stands for.
KindOf(dtype) ==
    CASE dtype = "datetime" -> "ts"
      [] dtype = "int" -> "num"
      [] dtype = "str" -> "str"
      [] OTHER -> ""

\* C27: after the presence check has passed, schema enforcement coerces each
\* configured column to its declared type and leaves every value that cannot
\* be coerced exactly as it was, neither replaced by a null or NaT nor raising
\* an error, for every declared type, timestamp included.
C27_FailedCoercionKept ==
    /\ EnforcerReturned =>
           \A i \in 1..Len(out.data) : \A k \in 1..Len(config.schema) :
               LET column == config.schema[k][1]
                   dtype == config.schema[k][2]
                   before == Column(DataFrame(BaseData), column)
                   after == Item(out.data[i], column)
               IN  /\ ~Coercible(before[i], dtype) => after = before[i]
                   /\ (\A j \in 1..Len(before) : Coercible(before[j], dtype)) =>
                          IsNull(after) \/ after.t = KindOf(dtype)
    /\ (cls = "SchemaEnforcerTransformer" /\ entry = "api" /\ ppc = "raised"
        /\ extracted # NONE /\ BaseTransform(extracted, entry, source, now).ok) =>
           MissingColumnRaised

\* The number of scalar leaves of the items of a mapping, reached through
\* nested mappings and through the mappings that are elements of lists.
RECURSIVE LeafCount(_)
LeafCount(items) ==
    IF items = <<>> THEN 0
    ELSE LET v == Head(items)[2]
             here == CASE v.t = "dict" -> LeafCount(v.v)
                       [] v.t = "list" ->
                            LeafCount([j \in 1..Len(v.v) |->
                                          <<"", IF v.v[j].t = "dict" THEN v.v[j]
                                                ELSE Dict(<<>>)>>])
                       [] OTHER -> 1
         IN  here + LeafCount(Tail(items))

\* C28: flattening loses no scalar leaf of nested mappings: two different
\* paths to scalar leaves never give the same flattened key, so the output
\* has as many keys as the input has such leaves and no value is overwritten.
C28_NoLeafLost ==
    FlattenerReturned =>
        \A i \in 1..Len(out.data) :
            Cardinality(Keys(out.data[i])) = LeafCount(BaseData[i].v)

====
